---- MODULE Spec2Model ----
(***************************************************************************)
(* Training-loop orchestration of MegatronDreamBooth and                   *)
(* MegatronRetrievalModel: the per-step gradient synchronisation policy,   *)
(* loss aggregation and logging, and the learning-rate scheduler           *)
(* correction applied when the gradient scaler skips an optimizer step     *)
(* (Spec, SpecSched); construction and setup of both models (SpecSetup);   *)
(* the diffusion loss and the masked language-model loss (SpecLoss); the   *)
(* pretraining data loader and its batch sampler (SpecSampler); the        *)
(* randomized sampler of DreamBooth and its restart (SpecRandom); the      *)
(* retrieval decoder's key/value memory over generation requests           *)
(* (SpecInference); a DreamBooth batch from collation to the loss thunk    *)
(* (SpecBatch); per-rank generator seeding (SpecSeed); the gradients       *)
(* between training_step and the optimizer step (SpecGrad); predict_step   *)
(* and the stored inference configuration (SpecPredict); the workers of    *)
(* the FID image generator (SpecFid).                                      *)
(***************************************************************************)
EXTENDS Integers, Sequences, FiniteSets, TLC

\* ---------------------------------------------------------------- bounds
\* longest list of per-microbatch loss records the pipeline engine returns
MaxMicroBatches == 2
\* largest trainer.accumulate_grad_batches of the retrieval model
MaxAccumulate == 2
\* largest number of entries _reduced_loss_buffer is followed to
MaxBuffer == 3
\* largest batch_idx an epoch is followed to (epochs of 1..MaxBatchIdx+1 batches)
MaxBatchIdx == 2

\* most learning-rate schedulers registered with the trainer
MaxSchedulers == 2
\* batches the scheduler correction is followed over
MaxBatches == 4
\* largest cfg.global_batch_size / cfg.micro_batch_size a model is set up with
MaxGlobalBatchSize == 6
MaxMicroBatchSize == 2
\* how often the trainer calls setup on one model (fit, then validate/test/predict)
MaxSetups == 2
\* most rows (dimension 0) of a batch DreamBooth.forward is followed on
MaxBatchRows == 4
\* most tokens of a retrieval batch the masked loss is followed on
MaxTokens == 3
\* number of ranks in the group; the last rank is NumRanks - 1
NumRanks == 2
Ranks == 0..(NumRanks - 1)
\* per-microbatch loss values (exact, small integers)
LossValues == {1, 2}
\* tensor_model_parallel_size / pipeline_model_parallel_size
ParallelSizes == {1, 2}
\* trainer / cfg precision, as configured
Precisions == {"16", "32"}
\* Python's None
None == "None"
\* the scaler's _scale attribute: None before the first scaling, a number after
ScaleValues == {None, "65536"}

\* ------------------------------------------------------------- rationals
\* exact scalars: <<numerator, denominator>> in lowest terms
RECURSIVE GCD(_, _)
GCD(a, b) == IF b = 0 THEN a ELSE GCD(b, a % b)

Frac(n, d) == IF n = 0 THEN <<0, 1>> ELSE <<n \div GCD(n, d), d \div GCD(n, d)>>

FracAdd(x, y) == Frac(x[1] * y[2] + y[1] * x[2], x[2] * y[2])

FracDivInt(x, k) == Frac(x[1], x[2] * k)

RECURSIVE SumSeq(_)
SumSeq(s) == IF s = <<>> THEN 0 ELSE Head(s) + SumSeq(Tail(s))

RECURSIVE FracSum(_)
FracSum(s) == IF s = <<>> THEN <<0, 1>> ELSE FracAdd(Head(s), FracSum(Tail(s)))

\* torch.stack(list).mean()
TensorMean(s) == Frac(SumSeq(s), Len(s))

\* number of occurrences of call c in the call sequence s
RECURSIVE Count(_, _)
Count(s, c) == IF s = <<>> THEN 0 ELSE (IF Head(s) = c THEN 1 ELSE 0) + Count(Tail(s), c)

\* position of the first occurrence of c in s, 0 when absent
RECURSIVE IndexOf(_, _)
IndexOf(s, c) ==
    IF s = <<>> THEN 0
    ELSE IF Head(s) = c THEN 1
    ELSE IF IndexOf(Tail(s), c) = 0 THEN 0 ELSE 1 + IndexOf(Tail(s), c)

\* lists of loss records of length 0..MaxMicroBatches
LossRecords == [loss : LossValues]
LossLists == UNION {[1..n -> LossRecords] : n \in 0..MaxMicroBatches}

\* what the engine returns to the ranks in one step: every rank runs the same
\* number n of microbatches; a rank gets n loss records, or none when it holds a
\* non-terminal pipeline stage
EngineOutputs ==
    UNION {[Ranks -> {<<>>} \cup [1..n -> LossRecords]] : n \in 1..MaxMicroBatches}

get_last_rank == CHOOSE r \in Ranks : \A q \in Ranks : q <= r

\* ------------------------------------------------------------ the state
VARIABLES
    cfg,                  \* the model configuration (immutable after construction)
    pc,                   \* position in the trainer loop
    batch_idx,            \* batch_idx the trainer passes to training_step
    engine_out,           \* per rank: the loss records the pipeline engine returned
    calls,                \* per rank: the calls the latest training_step issued, in order
    local_loss,           \* per rank: the step loss before any broadcast
    loss_mean,            \* per rank: the value training_step returned
    logged,               \* per rank: the <<key, value>> pairs the latest step logged
    backward_done,        \* the backward pass of the current batch has run
    undrained,            \* asynchronous gradient reductions are still in flight
    window,               \* calls issued since the last optimizer step
    reduced_loss_buffer,  \* MegatronRetrievalModel._reduced_loss_buffer
    val                   \* outcome of the latest validation_step

VARIABLES
    trainer,                   \* precision plugin, scaler, optimization mode (immutable)
    optimizer_update_skipped,  \* the GradScaler's flag: None, "True" or "False"
    schedulers,                \* trainer.lr_scheduler_configs: last_epoch and lr of each
    sched_pc,                  \* "batch": the trainer runs a batch; "batch_end": the hook is due
    hist                       \* bookkeeping about the latest optimizer step and hook call

VARIABLES
    env,   \* what a model is constructed from: cfg, trainer, parallel state, checkpoint
    mdl    \* the model object: how far construction and setup got, and what they set

schedVars == <<trainer, optimizer_update_skipped, schedulers, sched_pc, hist>>

VARIABLES
    fwd,   \* one call of DreamBooth.forward: its configuration, tensors and outcome
    mloss  \* one masked-loss computation of the retrieval model

VARIABLES
    world, \* what a pretraining data loader is built from: dataset size, resume offset, parallel sizes
    smp    \* the batch sampler of that loader and how far it has been iterated

setupVars == <<env, mdl>>

samplerVars == <<world, smp>>

lossVars == <<fwd, mloss>>

trainVars == <<cfg, pc, batch_idx, engine_out, calls, local_loss, loss_mean, logged,
               backward_done, undrained, window, reduced_loss_buffer, val>>

VARIABLES
    rworld, \* what the randomized batch sampler is built from: seed, dataset size, batch sizes
    run,    \* the sampler of an uninterrupted run and the batches it has yielded
    rerun   \* the sampler of a run restarted from a consumed_samples value of the first

randomVars == <<rworld, run, rerun>>

VARIABLES
    ctx     \* per generation request: the decoder's key/value memory and how far the request got

inferenceVars == <<ctx>>

VARIABLES
    mb      \* one DreamBooth batch on its way from the dataset through training_step

batchVars == <<mb>>

VARIABLES
    base_seed, \* cfg.seed
    rngs       \* per data-parallel rank: the generator of that rank's DreamBooth module

seedVars == <<base_seed, rngs>>

VARIABLES
    gradm   \* the gradients of the DreamBooth parameters through the trainer's optimization closure

gradVars == <<gradm>>

VARIABLES
    inference_config, \* MegatronRetrievalModel._inference_config: None or a dict
    pred              \* bookkeeping about set_inference_config and the latest predict_step call

predictVars == <<inference_config, pred>>

VARIABLES
    fidcfg, \* the FID generator's configuration: captions, nodes, tasks per node, samples per prompt
    fid     \* per worker the next prompt; the image files in the save directory

fidVars == <<fidcfg, fid>>

\* everything but the training loop, but the scheduler correction, but setup
nonTrainVars == <<schedVars, setupVars, lossVars, samplerVars, randomVars, inferenceVars, batchVars, seedVars, gradVars, predictVars, fidVars>>
nonSchedVars == <<trainVars, setupVars, lossVars, samplerVars, randomVars, inferenceVars, batchVars, seedVars, gradVars, predictVars, fidVars>>
nonSetupVars == <<trainVars, schedVars, lossVars, samplerVars, randomVars, inferenceVars, batchVars, seedVars, gradVars, predictVars, fidVars>>
nonLossVars == <<trainVars, schedVars, setupVars, samplerVars, randomVars, inferenceVars, batchVars, seedVars, gradVars, predictVars, fidVars>>
nonSamplerVars == <<trainVars, schedVars, setupVars, lossVars, randomVars, inferenceVars, batchVars, seedVars, gradVars, predictVars, fidVars>>
nonRandomVars == <<trainVars, schedVars, setupVars, lossVars, samplerVars, inferenceVars, batchVars, seedVars, gradVars, predictVars, fidVars>>
nonInferenceVars == <<trainVars, schedVars, setupVars, lossVars, samplerVars, randomVars, batchVars, seedVars, gradVars, predictVars, fidVars>>
nonBatchVars == <<trainVars, schedVars, setupVars, lossVars, samplerVars, randomVars, inferenceVars, seedVars, gradVars, predictVars, fidVars>>
nonSeedVars == <<trainVars, schedVars, setupVars, lossVars, samplerVars, randomVars, inferenceVars, batchVars, gradVars, predictVars, fidVars>>
nonGradVars == <<trainVars, schedVars, setupVars, lossVars, samplerVars, randomVars, inferenceVars, batchVars, seedVars, predictVars, fidVars>>
nonPredictVars == <<trainVars, schedVars, setupVars, lossVars, samplerVars, randomVars, inferenceVars, batchVars, seedVars, gradVars, fidVars>>
nonFidVars == <<trainVars, schedVars, setupVars, lossVars, samplerVars, randomVars, inferenceVars, batchVars, seedVars, gradVars, predictVars>>

Zero == Frac(0, 1)

\* the configurations a model can be constructed with.  DreamBooth's
\* _validate_trainer rejects accumulate_grad_batches > 1.  A field the model's
\* training_step never reads is held at 1: pipeline_model_parallel_size in
\* DreamBooth, tensor_model_parallel_size in the retrieval model.
Configs ==
    [model : {"dreambooth"},
     with_distributed_adam : BOOLEAN, megatron_amp_O2 : BOOLEAN,
     sequence_parallel : BOOLEAN,
     tensor_model_parallel_size : ParallelSizes,
     pipeline_model_parallel_size : {1},
     precision : Precisions,
     accumulate_grad_batches : {1}]
    \cup
    [model : {"retrieval"},
     with_distributed_adam : BOOLEAN, megatron_amp_O2 : BOOLEAN,
     sequence_parallel : BOOLEAN,
     tensor_model_parallel_size : {1},
     pipeline_model_parallel_size : ParallelSizes,
     precision : Precisions,
     accumulate_grad_batches : 1..MaxAccumulate]

NoVal == [ran |-> FALSE, losses |-> <<>>, loss |-> Zero, error |-> None]

\* ------------------------------------------------- DreamBooth training_step
\* loss_mean as training_step / validation_step compute it from the engine's list
LossMeanOf(losses) ==
    IF losses # <<>>
    THEN TensorMean([i \in 1..Len(losses) |-> losses[i].loss])
    ELSE Zero

\* variant: the tensor-parallel size is not looked at
DBSequenceParallelCalls_AnyTP(c) ==
    IF c.sequence_parallel THEN <<"allreduce_sequence_parallel_gradients">> ELSE <<>>

\* the sequence-parallel all-reduce of training_step
DBSequenceParallelCalls(c) ==
    IF c.tensor_model_parallel_size > 1 /\ c.sequence_parallel
    THEN <<"allreduce_sequence_parallel_gradients">>
    ELSE <<>>

\* variant: the wrapper is tested before the distributed optimizer
DBGradSyncCalls_WrapperFirst(c) ==
    IF c.megatron_amp_O2 THEN <<"allreduce_main_grads">>
    ELSE IF c.with_distributed_adam THEN <<>>
    ELSE <<"allreduce_gradients">>

\* variant: the plain branch reduces nothing
DBGradSyncCalls_NoPlain(c) ==
    IF c.with_distributed_adam THEN <<>>
    ELSE IF c.megatron_amp_O2 THEN <<"allreduce_main_grads">>
    ELSE <<>>

\* the gradient reduction the selected synchronisation mode issues
DBGradSyncCalls(c) ==
    IF c.with_distributed_adam THEN <<>>
    ELSE IF c.megatron_amp_O2 THEN <<"allreduce_main_grads">>
    ELSE <<"allreduce_gradients">>

\* variant: the reductions and the broadcast sit inside "if losses:"
DBStepCalls_LossGuarded(c, losses) ==
    <<"zero_grad", "forward_backward_no_pipelining">>
    \o (IF losses # <<>>
        THEN DBSequenceParallelCalls(c) \o DBGradSyncCalls(c) \o <<"broadcast">>
        ELSE <<>>)

\* every call one rank issues in one training_step, given the engine's loss list
DBStepCalls(c, losses) ==
    <<"zero_grad", "forward_backward_no_pipelining">>
    \o DBSequenceParallelCalls(c)
    \o DBGradSyncCalls(c)
    \o <<"broadcast">>

\* variant: no broadcast, every rank keeps its own value
Broadcast_Local(values) == values

\* torch.distributed.broadcast(loss_mean, get_last_rank()): every rank ends up
\* with the value the last rank held
Broadcast(values) == [r \in Ranks |-> values[get_last_rank]]

\* the loss_scale entry both models log under 16-bit precision
LossScaleLog(c, scale) ==
    IF c.precision = "16" /\ scale # None THEN <<(<<"loss_scale", scale>>)>> ELSE <<>>

DBStepLog(c, scale, value) ==
    LossScaleLog(c, scale)
    \o << <<"reduced_train_loss", value>>, <<"lr", "param_groups[0].lr">>,
          <<"global_step", "trainer.global_step+1">>,
          <<"consumed_samples", "compute_consumed_samples">> >>

DBTrainingStep ==
    /\ cfg.model = "dreambooth"
    /\ pc = "idle"
    /\ \E losses \in EngineOutputs, scale \in ScaleValues :
         LET means == [r \in Ranks |-> LossMeanOf(losses[r])]
             sent == Broadcast(means)
         IN /\ engine_out' = losses
            /\ calls' = [r \in Ranks |-> DBStepCalls(cfg, losses[r])]
            /\ local_loss' = means
            /\ loss_mean' = sent
            /\ logged' = [r \in Ranks |-> DBStepLog(cfg, scale, sent[r])]
            /\ window' = [steps |-> window.steps + 1,
                          main_grads |-> window.main_grads
                              + Count(DBStepCalls(cfg, losses[get_last_rank]), "allreduce_main_grads")]
    /\ backward_done' = TRUE
    /\ undrained' = FALSE
    /\ pc' = "returned"
    /\ UNCHANGED <<cfg, batch_idx, reduced_loss_buffer, val>>
    /\ UNCHANGED nonTrainVars

\* ------------------------------------------------ DreamBooth validation_step
\* self.log(val_loss_mean, prog_bar=False, ...): the tensor is passed as the
\* metric name and no value is passed, so the call fails with a TypeError
\* (LightningModule.log(name, value, ...) requires both; compare the log calls
\* of training_step, which pass name and value)
ValidationLogError(positional_args) == IF positional_args < 2 THEN "TypeError" ELSE None

DBValidationStep ==
    /\ cfg.model = "dreambooth"
    /\ pc = "idle"
    /\ \E losses \in LossLists :
         val' = [ran |-> TRUE, losses |-> losses, loss |-> LossMeanOf(losses),
                 error |-> ValidationLogError(1)]
    /\ pc' = IF ValidationLogError(1) = None THEN "idle" ELSE "raised"
    /\ UNCHANGED <<cfg, batch_idx, engine_out, calls, local_loss, loss_mean, logged,
                   backward_done, undrained, window, reduced_loss_buffer>>
    /\ UNCHANGED nonTrainVars

\* ---------------------------------------- retrieval model training_step
\* average_losses_across_data_parallel_group: the mean over the ranks
AverageAcrossDataParallelGroup(values) ==
    FracDivInt(FracSum([i \in 1..Cardinality(Ranks) |->
                           values[CHOOSE r \in Ranks : Cardinality({q \in Ranks : q < r}) = i - 1]]),
               Cardinality(Ranks))

\* variant: allreduce_main_grads whatever the pipeline size
RTGradSyncCalls_AnyPipeline(c) ==
    IF c.with_distributed_adam THEN <<>>
    ELSE IF c.megatron_amp_O2
         THEN (IF c.pipeline_model_parallel_size = 1 THEN <<"cuda_synchronize">> ELSE <<>>)
              \o <<"allreduce_main_grads">>
         ELSE <<>>

\* the branch on the synchronisation mode
RTGradSyncCalls(c) ==
    IF c.with_distributed_adam THEN <<>>
    ELSE IF c.megatron_amp_O2
         THEN (IF c.pipeline_model_parallel_size = 1 THEN <<"cuda_synchronize">> ELSE <<>>)
              \o (IF c.pipeline_model_parallel_size > 1 THEN <<"allreduce_main_grads">> ELSE <<>>)
         ELSE <<>>

RTStepCalls(c, lm_loss) ==
    <<"forward", "average_losses_across_data_parallel_group">> \o RTGradSyncCalls(c)

\* (batch_idx + 1) % trainer.accumulate_grad_batches == 0
AccumulationDone(c, idx) == (idx + 1) % c.accumulate_grad_batches = 0

RTStepLog(c, scale, idx, buffer) ==
    LossScaleLog(c, scale)
    \o (IF AccumulationDone(c, idx)
        THEN << <<"reduced_train_loss", FracDivInt(FracSum(buffer), Len(buffer))>>,
                <<"lr", "param_groups[0].lr">>,
                <<"global_step", "trainer.global_step">>,
                <<"consumed_samples", "compute_consumed_samples">> >>
        ELSE <<>>)

RTTrainingStep ==
    /\ cfg.model = "retrieval"
    /\ pc = "idle"
    /\ Len(reduced_loss_buffer) < MaxBuffer
    /\ \E lm \in [Ranks -> LossValues], scale \in ScaleValues :
         LET lm_loss == [r \in Ranks |-> Frac(lm[r], 1)]
             reduced == AverageAcrossDataParallelGroup(lm_loss)
             buffer == Append(reduced_loss_buffer, reduced)
         IN /\ engine_out' = [r \in Ranks |-> <<[loss |-> lm[r]]>>]
            /\ calls' = [r \in Ranks |-> RTStepCalls(cfg, lm_loss[r])]
            /\ local_loss' = lm_loss
            /\ loss_mean' = lm_loss
            /\ logged' = [r \in Ranks |-> RTStepLog(cfg, scale, batch_idx, buffer)]
            /\ reduced_loss_buffer' = IF AccumulationDone(cfg, batch_idx) THEN <<>> ELSE buffer
            /\ window' = [steps |-> window.steps + 1,
                          main_grads |-> window.main_grads
                              + Count(RTStepCalls(cfg, lm_loss[get_last_rank]), "allreduce_main_grads")]
            /\ undrained' = IF Count(RTStepCalls(cfg, lm_loss[get_last_rank]), "cuda_synchronize") > 0
                            THEN FALSE ELSE undrained
    /\ backward_done' = FALSE
    /\ pc' = "returned"
    /\ UNCHANGED <<cfg, batch_idx, val>>
    /\ UNCHANGED nonTrainVars

\* --------------------------------------------------- the trainer's loop
\* After training_step returns, the trainer calls the module's backward hook
\* on the returned loss.  MegatronDreamBooth.backward does nothing;
\* MegatronRetrievalModel keeps the default, which runs the backward pass and,
\* with the O2 wrapper and no pipeline, starts asynchronous gradient reductions.
BackwardHookRuns(c) == c.model # "dreambooth"

LightningBackward ==
    /\ pc = "returned"
    /\ backward_done' = (backward_done \/ BackwardHookRuns(cfg))
    /\ undrained' = IF /\ BackwardHookRuns(cfg)
                       /\ ~cfg.with_distributed_adam
                       /\ cfg.megatron_amp_O2
                       /\ cfg.pipeline_model_parallel_size = 1
                    THEN TRUE ELSE undrained
    /\ pc' = "backward_done"
    /\ UNCHANGED <<cfg, batch_idx, engine_out, calls, local_loss, loss_mean, logged,
                   window, reduced_loss_buffer, val>>
    /\ UNCHANGED nonTrainVars

\* the per-step records are dropped when the trainer fetches the next batch
NoRecords ==
    /\ engine_out' = [r \in Ranks |-> <<>>]
    /\ calls' = [r \in Ranks |-> <<>>]
    /\ local_loss' = [r \in Ranks |-> Zero]
    /\ loss_mean' = [r \in Ranks |-> Zero]
    /\ logged' = [r \in Ranks |-> <<>>]

\* the optimizer steps when the accumulation window closes or the epoch ends
OptimizerStep ==
    /\ pc = "backward_done"
    /\ \E is_last_batch \in BOOLEAN :
         /\ AccumulationDone(cfg, batch_idx) \/ is_last_batch
         /\ is_last_batch \/ batch_idx < MaxBatchIdx
         /\ batch_idx' = IF is_last_batch THEN 0 ELSE batch_idx + 1
    /\ window' = [steps |-> 0, main_grads |-> 0]
    /\ backward_done' = FALSE
    /\ pc' = "idle"
    /\ NoRecords
    /\ UNCHANGED <<cfg, undrained, reduced_loss_buffer, val>>
    /\ UNCHANGED nonTrainVars

\* inside an accumulation window the trainer moves on to the next batch
AccumulateBatch ==
    /\ pc = "backward_done"
    /\ ~AccumulationDone(cfg, batch_idx)
    /\ batch_idx < MaxBatchIdx
    /\ batch_idx' = batch_idx + 1
    /\ backward_done' = FALSE
    /\ pc' = "idle"
    /\ NoRecords
    /\ UNCHANGED <<cfg, undrained, window, reduced_loss_buffer, val>>
    /\ UNCHANGED nonTrainVars


\* ------------------------------------- on_train_batch_end and its setting
Trainers ==
    [precision_plugin : {None, "NativeMixedPrecisionPlugin", "OtherPlugin"},
     scaler : {None, "GradScaler", "OtherScaler"},
     automatic_optimization : BOOLEAN,
     num_schedulers : 0..MaxSchedulers]

\* the learning rate a scheduler sets at step counter e (a warm-up ramp)
LrAt(e) == e + 1

\* scheduler.step(): advance the counter and recompute the learning rate from it
SchedulerStep(sch) == [last_epoch |-> sch.last_epoch + 1, lr |-> LrAt(sch.last_epoch + 1)]

\* variant: the counter is rewound by one
CorrectScheduler_ByOne(sch) == [last_epoch |-> sch.last_epoch, lr |-> LrAt(sch.last_epoch)]

\* scheduler.last_epoch -= 2 followed by scheduler.step()
CorrectScheduler(sch) == SchedulerStep([sch EXCEPT !.last_epoch = sch.last_epoch - 2])

\* the nested conditions of on_train_batch_end that lead to the skip handling
SkipDetected(t, flag) ==
    /\ t.precision_plugin # None /\ t.precision_plugin = "NativeMixedPrecisionPlugin"
    /\ t.scaler # None /\ t.scaler = "GradScaler"
    /\ flag # None /\ flag = "True"

\* "if not scheduler_cfgs or not automatic_optimization: return"
EarlyReturn(t) == t.num_schedulers = 0 \/ ~t.automatic_optimization

\* variant: the flag is not reset
FlagAfterCorrection_Kept(flag) == flag

\* the flag after the hook has corrected the schedulers
FlagAfterCorrection(flag) == None

OnTrainBatchEnd ==
    /\ sched_pc = "batch_end"
    /\ IF SkipDetected(trainer, optimizer_update_skipped)
       THEN IF EarlyReturn(trainer)
            THEN /\ UNCHANGED <<schedulers, optimizer_update_skipped>>
                 /\ hist' = [hist EXCEPT !.outcome = "returned", !.before_hook = schedulers]
            ELSE /\ schedulers' = [i \in DOMAIN schedulers |-> CorrectScheduler(schedulers[i])]
                 /\ optimizer_update_skipped' = FlagAfterCorrection(optimizer_update_skipped)
                 /\ hist' = [hist EXCEPT !.outcome = "corrected", !.before_hook = schedulers,
                                         !.corrections = hist.corrections + 1]
       ELSE /\ UNCHANGED <<schedulers, optimizer_update_skipped>>
            /\ hist' = [hist EXCEPT !.outcome = "no_skip", !.before_hook = schedulers]
    /\ sched_pc' = "batch"
    /\ UNCHANGED trainer
    /\ UNCHANGED nonSchedVars

\* The trainer runs one batch.  When the accumulation window closes it steps the
\* optimizer through the scaler, which may skip the update on inf/nan gradients
\* (a GradScaler records the outcome in optimizer_update_skipped), and then,
\* under automatic optimization, steps every scheduler.
TrainerOptimizerStep ==
    /\ sched_pc = "batch"
    /\ hist.batches < MaxBatches
    /\ \E skipped \in BOOLEAN :
         /\ skipped => trainer.scaler # None
         /\ optimizer_update_skipped' =
                IF trainer.scaler = "GradScaler"
                THEN (IF skipped THEN "True" ELSE "False")
                ELSE optimizer_update_skipped
         /\ hist' = [hist EXCEPT !.batches = hist.batches + 1,
                                 !.stepped = TRUE,
                                 !.skipped = skipped,
                                 !.before_step = schedulers,
                                 !.outcome = "pending",
                                 !.skips = hist.skips
                                     + (IF skipped /\ trainer.scaler = "GradScaler" THEN 1 ELSE 0)]
    /\ schedulers' = IF trainer.automatic_optimization
                     THEN [i \in DOMAIN schedulers |-> SchedulerStep(schedulers[i])]
                     ELSE schedulers
    /\ sched_pc' = "batch_end"
    /\ UNCHANGED trainer
    /\ UNCHANGED nonSchedVars

\* a batch inside an accumulation window: no optimizer step, no scheduler step
TrainerAccumulateBatch ==
    /\ sched_pc = "batch"
    /\ hist.batches < MaxBatches
    /\ hist' = [hist EXCEPT !.batches = hist.batches + 1, !.stepped = FALSE,
                            !.skipped = FALSE, !.before_step = schedulers,
                            !.outcome = "pending"]
    /\ sched_pc' = "batch_end"
    /\ UNCHANGED <<trainer, optimizer_update_skipped, schedulers>>
    /\ UNCHANGED nonSchedVars

NewScheduler == [last_epoch |-> 0, lr |-> LrAt(0)]

SchedInit ==
    /\ trainer \in Trainers
    /\ optimizer_update_skipped = None
    /\ schedulers = [i \in 1..trainer.num_schedulers |-> NewScheduler]
    /\ sched_pc = "batch"
    /\ hist = [batches |-> 0, stepped |-> FALSE, skipped |-> FALSE,
               before_step |-> schedulers, before_hook |-> schedulers,
               outcome |-> "none", skips |-> 0, corrections |-> 0]

\* the scheduler variables where only the training step is followed
SchedIdle ==
    /\ trainer = [precision_plugin |-> None, scaler |-> None,
                  automatic_optimization |-> TRUE, num_schedulers |-> 0]
    /\ optimizer_update_skipped = None
    /\ schedulers = <<>>
    /\ sched_pc = "off"
    /\ hist = [batches |-> 0, stepped |-> FALSE, skipped |-> FALSE,
               before_step |-> <<>>, before_hook |-> <<>>,
               outcome |-> "none", skips |-> 0, corrections |-> 0]

\* --------------------------------------------- construction and setup
\* trainer.precision / cfg.precision as configured
PrecisionValues == {"bf16", "32", "16", "64", "fp8"}

\* consumed_samples values recorded in a checkpoint
ConsumedValues == {0, 4, 8}

\* trainer._checkpoint_connector.resume_from_checkpoint_fit_path: None, or a
\* path whose metadata holds consumed_samples
Checkpoints ==
    [path : {None}, consumed_samples : {0}]
    \cup [path : {"ckpt"}, consumed_samples : ConsumedValues]

\* cfg.data.regularization_dir / regularization_prompt, None when missing
DataConfigs ==
    [regularization_dir : {None, "reg_dir"}, regularization_prompt : {None, "a photo"}]

\* what a model is constructed and set up from.  A field the model never reads
\* is held at one value: cfg.precision and run_retrieval in DreamBooth, the
\* prior-preservation settings in the retrieval model, and of the two precision
\* fields of the retrieval model the one run_retrieval does not select.
Envs ==
    [kind : {"dreambooth"},
     accumulate_grad_batches : 1..MaxAccumulate,
     trainer_precision : PrecisionValues, cfg_precision : {"16"}, run_retrieval : {FALSE},
     global_batch_size : 1..MaxGlobalBatchSize,
     micro_batch_size : 1..MaxMicroBatchSize,
     data_parallel_size : 1..NumRanks,
     with_prior_preservation : BOOLEAN, data : DataConfigs,
     ckpt : Checkpoints]
    \cup
    [kind : {"retrieval"},
     accumulate_grad_batches : {1},
     trainer_precision : PrecisionValues, cfg_precision : {"16"}, run_retrieval : {TRUE},
     global_batch_size : 1..MaxGlobalBatchSize,
     micro_batch_size : 1..MaxMicroBatchSize,
     data_parallel_size : 1..NumRanks,
     with_prior_preservation : {FALSE},
     data : {[regularization_dir |-> None, regularization_prompt |-> None]},
     ckpt : Checkpoints]
    \cup
    [kind : {"retrieval"},
     accumulate_grad_batches : {1},
     trainer_precision : {"16"}, cfg_precision : PrecisionValues, run_retrieval : {FALSE},
     global_batch_size : 1..MaxGlobalBatchSize,
     micro_batch_size : 1..MaxMicroBatchSize,
     data_parallel_size : 1..NumRanks,
     with_prior_preservation : {FALSE},
     data : {[regularization_dir |-> None, regularization_prompt |-> None]},
     ckpt : Checkpoints]

\* a data loader that has not been built
NoLoader ==
    [built |-> FALSE, sampler |-> None, skips |-> 0, batch_size |-> 0,
     drop_last |-> FALSE, reg_data_root |-> None, reg_prompt |-> None]

\* the model object before __init__ has run
NewModel ==
    [stage |-> "new", error |-> None, raised_by |-> None, autocast_dtype |-> None,
     init_consumed_samples |-> 0, num_micro_batches |-> 0, setups |-> 0,
     created |-> <<>>, train_dl |-> NoLoader, validation_dl_built |-> FALSE]

\* variant: only values above 2 are rejected
ValidateTrainer_AboveTwo(accumulate_grad_batches) ==
    IF accumulate_grad_batches > 2 THEN "ValueError" ELSE None

\* MegatronDreamBooth._validate_trainer: the error it raises, None when it passes
ValidateTrainer(accumulate_grad_batches) ==
    IF accumulate_grad_batches > 1 THEN "ValueError" ELSE None

\* int(precision): -1 stands for the ValueError int() raises on a non-numeric string
IntOfPrecision(p) ==
    CASE p = "32" -> 32
      [] p = "16" -> 16
      [] p = "64" -> 64
      [] OTHER -> -1

\* variant: the final else branch takes the value for 16-bit instead of raising
AutocastDtype_NoElse(p) ==
    IF p = "bf16" THEN [dtype |-> "bfloat16", error |-> None]
    ELSE IF IntOfPrecision(p) = -1 THEN [dtype |-> None, error |-> "ValueError"]
    ELSE IF IntOfPrecision(p) = 32 THEN [dtype |-> "float", error |-> None]
    ELSE [dtype |-> "half", error |-> None]

\* the if / elif chain on the precision in both constructors
AutocastDtype(p) ==
    IF p = "bf16" THEN [dtype |-> "bfloat16", error |-> None]
    ELSE IF IntOfPrecision(p) = -1 THEN [dtype |-> None, error |-> "ValueError"]
    ELSE IF IntOfPrecision(p) = 32 THEN [dtype |-> "float", error |-> None]
    ELSE IF IntOfPrecision(p) = 16 THEN [dtype |-> "half", error |-> None]
    ELSE [dtype |-> None, error |-> "ValueError"]

\* the precision the constructor looks at
PrecisionRead(e) ==
    IF e.kind = "dreambooth" THEN e.trainer_precision
    ELSE IF e.run_retrieval THEN e.trainer_precision
    ELSE e.cfg_precision

Raise(m, err, by) == [m EXCEPT !.stage = "raised", !.error = err, !.raised_by = by]

\* MegatronDreamBooth.__init__: _validate_trainer, then the precision
DBConstruct ==
    /\ env.kind = "dreambooth"
    /\ mdl.stage = "new"
    /\ LET checked == ValidateTrainer(env.accumulate_grad_batches)
           cast == AutocastDtype(PrecisionRead(env))
       IN mdl' = IF checked # None THEN Raise(mdl, checked, "_validate_trainer")
                 ELSE IF cast.error # None THEN Raise(mdl, cast.error, "precision")
                 ELSE [mdl EXCEPT !.stage = "constructed", !.autocast_dtype = cast.dtype]
    /\ UNCHANGED env
    /\ UNCHANGED nonSetupVars

\* MegatronRetrievalModel.__init__: the precision, in either branch
RTConstruct ==
    /\ env.kind = "retrieval"
    /\ mdl.stage = "new"
    /\ LET cast == AutocastDtype(PrecisionRead(env))
       IN mdl' = IF cast.error # None THEN Raise(mdl, cast.error, "precision")
                 ELSE [mdl EXCEPT !.stage = "constructed", !.autocast_dtype = cast.dtype]
    /\ UNCHANGED env
    /\ UNCHANGED nonSetupVars

\* _extract_consumed_samples_from_ckpt (inherited): the consumed_samples
\* metadata of the checkpoint
ExtractConsumedSamplesFromCkpt(ckpt) == ckpt.consumed_samples

\* "if resume_checkpoint_path: ... else: init_consumed_samples = 0"
InitConsumedSamples(ckpt) ==
    IF ckpt.path # None THEN ExtractConsumedSamplesFromCkpt(ckpt) ELSE 0

\* compute_consumed_samples of the retrieval model
compute_consumed_samples(init_consumed_samples, steps_since_resume, e) ==
    init_consumed_samples
    + steps_since_resume * e.data_parallel_size * e.micro_batch_size * e.accumulate_grad_batches

\* compute_consumed_samples as DreamBooth inherits it: the resume offset plus
\* the samples of the global batches stepped since
InheritedComputeConsumedSamples(init_consumed_samples, steps_since_resume, e) ==
    init_consumed_samples + steps_since_resume * e.global_batch_size

\* self._num_micro_batches of DreamBooth's setup (floor division)
NumMicroBatches(e) ==
    e.global_batch_size \div (e.micro_batch_size * e.data_parallel_size)

\* variant: only the regularization directory is looked at
PriorPreservationError_DirOnly(e) ==
    IF e.with_prior_preservation /\ e.data.regularization_dir = None THEN "ValueError"
    ELSE None

\* the checks at the head of setup_training_data: the error raised, or None
PriorPreservationError(e) ==
    IF e.with_prior_preservation /\ e.data.regularization_dir = None THEN "ValueError"
    ELSE IF e.with_prior_preservation /\ e.data.regularization_prompt = None THEN "ValueError"
    ELSE None

\* the data loader setup_training_data builds; batch_size stands for the
\* global_batch_size handed to the batch sampler
DBTrainLoader(e, init_consumed_samples) ==
    [built |-> TRUE,
     sampler |-> "MegatronPretrainingRandomBatchSampler",
     skips |-> InheritedComputeConsumedSamples(init_consumed_samples, 0, e),
     batch_size |-> e.global_batch_size,
     drop_last |-> FALSE,
     reg_data_root |-> IF e.with_prior_preservation THEN e.data.regularization_dir ELSE None,
     reg_prompt |-> IF e.with_prior_preservation THEN e.data.regularization_prompt ELSE None]

\* MegatronDreamBooth.setup, setup_training_data included
DBSetup ==
    /\ env.kind = "dreambooth"
    /\ mdl.stage = "constructed"
    /\ LET init == InitConsumedSamples(env.ckpt)
           set == [mdl EXCEPT !.init_consumed_samples = init,
                              !.num_micro_batches = NumMicroBatches(env),
                              !.setups = @ + 1]
           err == PriorPreservationError(env)
       IN mdl' = IF err # None THEN Raise(set, err, "setup_training_data")
                 ELSE [set EXCEPT !.stage = "ready",
                                  !.created = <<"DreamBoothDataset",
                                                "MegatronPretrainingRandomBatchSampler",
                                                "DataLoader">>,
                                  !.train_dl = DBTrainLoader(env, init)]
    /\ UNCHANGED env
    /\ UNCHANGED nonSetupVars

\* "assert batch_size % data_parallel_size == 0" of build_virtual_prompt_dataset,
\* which build_prompt_data calls with batch_size = cfg.micro_batch_size
PromptBatchError(e) ==
    IF e.micro_batch_size % e.data_parallel_size # 0 THEN "AssertionError" ELSE None

\* the training loader of build_virtual_prompt_dataset: a DataLoader over a
\* DistributedSampler, which is handed no offset and starts at the first sample
RTTrainLoader(e) ==
    [built |-> TRUE,
     sampler |-> "DistributedSampler",
     skips |-> 0,
     batch_size |-> e.micro_batch_size \div e.data_parallel_size,
     drop_last |-> FALSE,
     reg_data_root |-> None,
     reg_prompt |-> None]

\* build_prompt_data: the train, validation and test loaders, in this order
BuildPromptData(m, e) ==
    IF PromptBatchError(e) # None
    THEN [Raise(m, PromptBatchError(e), "build_virtual_prompt_dataset")
             EXCEPT !.created = m.created \o <<"RetroPromptLearningDataset", "DistributedSampler">>]
    ELSE [m EXCEPT !.stage = "ready",
                   !.created = m.created
                       \o <<"RetroPromptLearningDataset", "DistributedSampler", "DataLoader",
                            "RetroPromptLearningDataset", "DistributedSampler", "DataLoader",
                            "RetroPromptLearningDataset", "DistributedSampler", "DataLoader">>,
                   !.train_dl = RTTrainLoader(e),
                   !.validation_dl_built = TRUE]

\* MegatronRetrievalModel.setup; the trainer may call it once per stage
RTSetup ==
    /\ env.kind = "retrieval"
    /\ mdl.stage \in {"constructed", "ready"}
    /\ mdl.setups < MaxSetups
    /\ \E stage \in {"fit", "predict"} :
         LET set == [mdl EXCEPT !.stage = "ready",
                                !.init_consumed_samples = InitConsumedSamples(env.ckpt),
                                !.setups = @ + 1]
         IN mdl' = IF stage = "predict" THEN set
                   ELSE IF mdl.train_dl.built /\ mdl.validation_dl_built THEN set
                   ELSE BuildPromptData(set, env)
    /\ UNCHANGED env
    /\ UNCHANGED nonSetupVars

SetupInit ==
    /\ env \in Envs
    /\ mdl = NewModel

\* the setup variables where another part of the program is followed
SetupIdle ==
    /\ env = [kind |-> "retrieval", accumulate_grad_batches |-> 1,
              trainer_precision |-> "16", cfg_precision |-> "16", run_retrieval |-> FALSE,
              global_batch_size |-> 1, micro_batch_size |-> 1, data_parallel_size |-> 1,
              with_prior_preservation |-> FALSE,
              data |-> [regularization_dir |-> None, regularization_prompt |-> None],
              ckpt |-> [path |-> None, consumed_samples |-> 0]]
    /\ mdl = [NewModel EXCEPT !.stage = "off"]

\* ------------------------------------------------- DreamBooth.forward
\* cfg.noise_scheduler.parameterization; "v" stands for any unsupported value
Parameterizations == {"x0", "eps", "v"}

\* entries of the scaled latents, of the noise and of the U-Net's output, one
\* entry per row of the batch
LatentValues == {0, 1}
NoiseValues == {0, 1}
OutputValues == {0, 2}

ForwardConfigs ==
    [parameterization : Parameterizations, with_prior_preservation : {FALSE},
     prior_loss_weight : {1}]
    \cup
    [parameterization : Parameterizations, with_prior_preservation : {TRUE},
     prior_loss_weight : {1, 2}]

\* rows of the batch _collate_fn stacks: one image per example, or the
\* instance images followed by as many regularization images
BatchRows(c) ==
    IF c.with_prior_preservation
    THEN {2 * k : k \in 1..(MaxBatchRows \div 2)}
    ELSE 1..MaxBatchRows

FracMulInt(x, k) == Frac(x[1] * k, x[2])

\* torch.nn.functional.mse_loss(a, b, reduction="mean")
MseLoss(a, b) ==
    Frac(SumSeq([i \in 1..Len(a) |-> (a[i] - b[i]) * (a[i] - b[i])]), Len(a))

\* torch.chunk(x, 2, dim=0): chunks of ceil(n / 2) rows
ChunkSize(x) == (Len(x) + 1) \div 2
FirstChunk(x) == SubSeq(x, 1, ChunkSize(x))
SecondChunk(x) == SubSeq(x, ChunkSize(x) + 1, Len(x))

\* variant: an unknown parameterization falls back to the noise
LossTarget_Fallback(parameterization, latents, noise) ==
    IF parameterization = "x0" THEN [target |-> latents, error |-> None]
    ELSE [target |-> noise, error |-> None]

\* the if / elif / else on self.parameterization
LossTarget(parameterization, latents, noise) ==
    IF parameterization = "x0" THEN [target |-> latents, error |-> None]
    ELSE IF parameterization = "eps" THEN [target |-> noise, error |-> None]
    ELSE [target |-> <<>>, error |-> "NotImplementedError"]

\* variant: the weight multiplies the instance term
DiffusionLoss_WeightOnInstance(c, model_output, target) ==
    IF c.with_prior_preservation
    THEN FracAdd(FracMulInt(MseLoss(FirstChunk(model_output), FirstChunk(target)),
                            c.prior_loss_weight),
                 MseLoss(SecondChunk(model_output), SecondChunk(target)))
    ELSE MseLoss(target, model_output)

\* the loss of forward, with and without prior preservation
DiffusionLoss(c, model_output, target) ==
    IF c.with_prior_preservation
    THEN LET loss == MseLoss(FirstChunk(model_output), FirstChunk(target))
             prior_loss == MseLoss(SecondChunk(model_output), SecondChunk(target))
         IN FracAdd(loss, FracMulInt(prior_loss, c.prior_loss_weight))
    ELSE MseLoss(target, model_output)

NoForward(c) ==
    [cfg |-> c, pc |-> "ready", latents |-> <<>>, noise |-> <<>>, model_output |-> <<>>,
     target |-> <<>>, loss |-> Zero, error |-> None]

\* DreamBooth.forward on one batch
DreamBoothForward ==
    /\ fwd.pc = "ready"
    /\ \E n \in BatchRows(fwd.cfg) :
         \E latents \in [1..n -> LatentValues], noise \in [1..n -> NoiseValues],
            model_output \in [1..n -> OutputValues] :
              LET t == LossTarget(fwd.cfg.parameterization, latents, noise)
                  ran == [fwd EXCEPT !.latents = latents, !.noise = noise,
                                     !.model_output = model_output]
              IN fwd' = IF t.error # None
                        THEN [ran EXCEPT !.pc = "raised", !.error = t.error]
                        ELSE [ran EXCEPT !.pc = "returned", !.target = t.target,
                                         !.loss = DiffusionLoss(fwd.cfg, model_output, t.target)]
    /\ UNCHANGED mloss
    /\ UNCHANGED nonLossVars

\* ------------------------------------ masked loss of the retrieval model
\* per-token losses and loss-mask entries (loss_mask.float() holds 0.0 and 1.0)
TokenLossValues == {0, 1, 2}
MaskValues == {0, 1}

\* division of two scalar tensors: 0/0 is nan, written <<0, 0>>, and x/0 is
\* inf, written <<1, 0>>
TorchDiv(n, d) ==
    IF d # 0 THEN Frac(n, d)
    ELSE IF n = 0 THEN <<0, 0>> ELSE <<1, 0>>

\* variant: the per-token losses are summed without the mask
MaskedLoss_Unmasked(loss, loss_mask) == TorchDiv(SumSeq(loss), SumSeq(loss_mask))

\* torch.sum(loss.view(-1) * loss_mask.reshape(-1)) / loss_mask.sum()
MaskedLoss(loss, loss_mask) ==
    TorchDiv(SumSeq([i \in 1..Len(loss) |-> loss[i] * loss_mask[i]]), SumSeq(loss_mask))

NoMaskedLoss ==
    [pc |-> "ready", step |-> None, loss |-> <<>>, loss_mask |-> <<>>, lm_loss |-> Zero]

\* lm_loss as training_step computes it from the model's per-token loss
RTTrainingLoss ==
    /\ mloss.pc = "ready"
    /\ \E n \in 1..MaxTokens :
         \E loss \in [1..n -> TokenLossValues], loss_mask \in [1..n -> MaskValues] :
            mloss' = [pc |-> "returned", step |-> "training_step", loss |-> loss,
                   loss_mask |-> loss_mask, lm_loss |-> MaskedLoss(loss, loss_mask)]
    /\ UNCHANGED fwd
    /\ UNCHANGED nonLossVars

\* lm_loss as validation_step computes it
RTValidationLoss ==
    /\ mloss.pc = "ready"
    /\ \E n \in 1..MaxTokens :
         \E loss \in [1..n -> TokenLossValues], loss_mask \in [1..n -> MaskValues] :
            mloss' = [pc |-> "returned", step |-> "validation_step", loss |-> loss,
                   loss_mask |-> loss_mask, lm_loss |-> MaskedLoss(loss, loss_mask)]
    /\ UNCHANGED fwd
    /\ UNCHANGED nonLossVars

\* one loss computation is followed: DreamBooth's or the retrieval model's
LossInit ==
    \/ /\ fwd \in {NoForward(c) : c \in ForwardConfigs}
       /\ mloss = [NoMaskedLoss EXCEPT !.pc = "off"]
    \/ /\ fwd = [NoForward([parameterization |-> "eps", with_prior_preservation |-> FALSE,
                            prior_loss_weight |-> 1]) EXCEPT !.pc = "off"]
       /\ mloss = NoMaskedLoss

\* the loss variables where another part of the program is followed
LossIdle ==
    /\ fwd = [NoForward([parameterization |-> "eps", with_prior_preservation |-> FALSE,
                         prior_loss_weight |-> 1]) EXCEPT !.pc = "off"]
    /\ mloss = [NoMaskedLoss EXCEPT !.pc = "off"]

\* ------------------------------- the pretraining data loader's sampler
\* len(dataset), the resume offset and cfg.micro_batch_size a loader is built with
DatasetSizes == {8, 30, 100}
ResumeOffsets == {0, 16}
MicroBatchSizes == {2, 4}

\* trainer.world_size is the product of the three parallel sizes
Worlds ==
    [total_samples : DatasetSizes, consumed_samples : ResumeOffsets,
     micro_batch_size : MicroBatchSizes,
     data_parallel_size : 1..NumRanks,
     tensor_model_parallel_size : ParallelSizes,
     pipeline_model_parallel_size : ParallelSizes]

WorldSize(w) ==
    w.data_parallel_size * w.tensor_model_parallel_size * w.pipeline_model_parallel_size

\* global_batch_size of build_pretraining_data_loader
PretrainingGlobalBatchSize(w) ==
    (WorldSize(w) * w.micro_batch_size) \div w.tensor_model_parallel_size

\* variant: the last, partial global batch is kept
PretrainingDropLast_Keep == FALSE

\* drop_last as build_pretraining_data_loader passes it
PretrainingDropLast == TRUE

NoSampler ==
    [pc |-> "new", global_batch_size |-> 0, drop_last |-> FALSE, position |-> 0,
     batches |-> 0, yielded |-> 0, dropped |-> 0, last |-> <<>>]

\* build_pretraining_data_loader: the sequential batch sampler is handed the
\* dataset size, the resume offset, the batch sizes and drop_last
BuildPretrainingDataLoader ==
    /\ smp.pc = "new"
    /\ smp' = [smp EXCEPT !.pc = "iterating",
                          !.global_batch_size = PretrainingGlobalBatchSize(world),
                          !.drop_last = PretrainingDropLast,
                          !.position = world.consumed_samples]
    /\ UNCHANGED world
    /\ UNCHANGED nonSamplerVars

\* samples the sequential sampler has not handed out yet
Remaining(w, sm) == IF sm.position < w.total_samples THEN w.total_samples - sm.position ELSE 0

\* size of the next global batch, 0 when the iteration is over
NextBatchSize(w, sm) ==
    IF Remaining(w, sm) >= sm.global_batch_size THEN sm.global_batch_size
    ELSE IF sm.drop_last THEN 0
    ELSE Remaining(w, sm)

\* the indices of a global batch starting at start that go to data-parallel
\* rank r: its window of global_batch_size / data_parallel_size indices
RankIndices(w, sm, start, size, r) ==
    LET share == sm.global_batch_size \div w.data_parallel_size
        lo == r * share
        hi == IF (r + 1) * share < size THEN (r + 1) * share ELSE size
    IN [i \in 1..(IF hi > lo THEN hi - lo ELSE 0) |-> start + lo + i - 1]

\* the sampler yields the next global batch
SamplerYield ==
    /\ smp.pc = "iterating"
    /\ NextBatchSize(world, smp) > 0
    /\ LET size == NextBatchSize(world, smp)
       IN smp' = [smp EXCEPT !.position = @ + size,
                             !.batches = @ + 1,
                             !.yielded = @ + size,
                             !.last = [r \in 0..(world.data_parallel_size - 1) |->
                                          RankIndices(world, smp, smp.position, size, r)]]
    /\ UNCHANGED world
    /\ UNCHANGED nonSamplerVars

\* the sampler is exhausted: what is left of the epoch is dropped
SamplerStop ==
    /\ smp.pc = "iterating"
    /\ NextBatchSize(world, smp) = 0
    /\ smp' = [smp EXCEPT !.pc = "done", !.dropped = Remaining(world, smp)]
    /\ UNCHANGED world
    /\ UNCHANGED nonSamplerVars

SamplerInit ==
    /\ world \in Worlds
    /\ smp = NoSampler

\* the sampler variables where another part of the program is followed
SamplerIdle ==
    /\ world = [total_samples |-> 8, consumed_samples |-> 0, micro_batch_size |-> 2,
                data_parallel_size |-> 1, tensor_model_parallel_size |-> 1,
                pipeline_model_parallel_size |-> 1]
    /\ smp = [NoSampler EXCEPT !.pc = "off"]

\* ------------------------------- the randomized batch sampler of DreamBooth
\* seeds, len(train_dataset), cfg.micro_batch_size and the consumed samples a
\* first run starts from
SamplerSeeds == {0, 1, 2}
RandomDatasetSizes == {6, 9}
RandomMicroBatchSizes == {1, 2}
RandomResumeOffsets == {0, 4}

RandomWorlds ==
    [seed : SamplerSeeds, total_samples : RandomDatasetSizes,
     consumed_samples : RandomResumeOffsets,
     micro_batch_size : RandomMicroBatchSizes,
     data_parallel_size : 1..NumRanks]

\* cfg.global_batch_size: one micro batch per data-parallel rank
RandomGlobalBatchSize(w) == w.micro_batch_size * w.data_parallel_size

\* drop_last as setup_training_data passes it
RandomDropLast == FALSE

\* the pseudo-random permutation of 0..n-1 a seed stands for: the same seed
\* gives the same permutation, different seeds different ones
Permutation(seed, n) ==
    [i \in 1..n |-> IF seed % 2 = 0 THEN (i - 1 + seed) % n
                    ELSE (n - i + seed) % n]

\* variant: a restarted sampler skips nothing
RandomSkip_None(consumed) == 0

\* entries of the permutation a sampler built with consumed_samples skips
RandomSkip(consumed) == consumed

\* the sampler as constructed: its permutation, and the entries still to yield
NewRandomSampler(w, consumed) ==
    LET perm == Permutation(w.seed, w.total_samples)
        skip == IF RandomSkip(consumed) < w.total_samples THEN RandomSkip(consumed)
                ELSE w.total_samples
    IN [pc |-> "iterating", global_batch_size |-> RandomGlobalBatchSize(w),
        drop_last |-> RandomDropLast, consumed_samples |-> consumed,
        idx_range |-> SubSeq(perm, skip + 1, w.total_samples),
        at |-> 0, hist |-> <<>>]

NoRandomSampler ==
    [pc |-> "new", global_batch_size |-> 0, drop_last |-> FALSE, consumed_samples |-> 0,
     idx_range |-> <<>>, at |-> 0, hist |-> <<>>]

\* setup_training_data: the randomized sampler is handed the dataset size, the
\* consumed samples, the batch sizes, the data-parallel layout and drop_last
DBBuildRandomSampler ==
    /\ run.pc = "new"
    /\ run' = NewRandomSampler(rworld, rworld.consumed_samples)
    /\ UNCHANGED <<rworld, rerun>>
    /\ UNCHANGED nonRandomVars

\* size of the next global batch of a randomized sampler, 0 when it is exhausted
RandomNextSize(sm) ==
    IF Len(sm.idx_range) >= sm.global_batch_size THEN sm.global_batch_size
    ELSE IF sm.drop_last THEN 0
    ELSE Len(sm.idx_range)

\* the part of a global batch that goes to data-parallel rank r
RandomRankIndices(w, batch, r) ==
    LET lo == r * w.micro_batch_size
        hi == IF (r + 1) * w.micro_batch_size < Len(batch)
              THEN (r + 1) * w.micro_batch_size ELSE Len(batch)
    IN IF hi > lo THEN SubSeq(batch, lo + 1, hi) ELSE <<>>

\* a randomized sampler after it yielded its next global batch
RandomAdvance(w, sm) ==
    LET size == RandomNextSize(sm)
        batch == SubSeq(sm.idx_range, 1, size)
    IN [sm EXCEPT !.idx_range = SubSeq(@, size + 1, Len(@)),
                  !.consumed_samples = @ + size,
                  !.hist = Append(@, [r \in 0..(w.data_parallel_size - 1) |->
                                         RandomRankIndices(w, batch, r)])]

\* the uninterrupted run draws its next batch
RandomYield ==
    /\ run.pc = "iterating"
    /\ RandomNextSize(run) > 0
    /\ run' = RandomAdvance(rworld, run)
    /\ UNCHANGED <<rworld, rerun>>
    /\ UNCHANGED nonRandomVars

\* the uninterrupted run reaches the end of its index range
RandomStop ==
    /\ run.pc = "iterating"
    /\ RandomNextSize(run) = 0
    /\ run' = [run EXCEPT !.pc = "done"]
    /\ UNCHANGED <<rworld, rerun>>
    /\ UNCHANGED nonRandomVars

\* a second run is set up from a checkpoint of the first: setup_training_data
\* again, with the same seed and the consumed samples the first run had reached
DBRestartRandomSampler ==
    /\ run.pc \in {"iterating", "done"}
    /\ rerun.pc = "new"
    /\ rerun' = [NewRandomSampler(rworld, run.consumed_samples) EXCEPT !.at = Len(run.hist)]
    /\ UNCHANGED <<rworld, run>>
    /\ UNCHANGED nonRandomVars

\* the restarted run draws its next batch
RerunYield ==
    /\ rerun.pc = "iterating"
    /\ RandomNextSize(rerun) > 0
    /\ rerun' = RandomAdvance(rworld, rerun)
    /\ UNCHANGED <<rworld, run>>
    /\ UNCHANGED nonRandomVars

\* the restarted run reaches the end of its index range
RerunStop ==
    /\ rerun.pc = "iterating"
    /\ RandomNextSize(rerun) = 0
    /\ rerun' = [rerun EXCEPT !.pc = "done"]
    /\ UNCHANGED <<rworld, run>>
    /\ UNCHANGED nonRandomVars

RandomInit ==
    /\ rworld \in RandomWorlds
    /\ run = NoRandomSampler
    /\ rerun = NoRandomSampler

\* the randomized-sampler variables where another part of the program is followed
RandomIdle ==
    /\ rworld = [seed |-> 0, total_samples |-> 6, consumed_samples |-> 0,
                 micro_batch_size |-> 1, data_parallel_size |-> 1]
    /\ run = [NoRandomSampler EXCEPT !.pc = "off"]
    /\ rerun = [NoRandomSampler EXCEPT !.pc = "off"]

\* ------------------------------- the retrieval decoder's key/value memory
\* generation requests in flight, tokens of one chunk call, requests one slot
\* serves one after the other, and the inference_max_sequence_len values
MaxRequests == 2
MaxChunkLen == 2
MaxServed == 2
MaxSeqLens == {2, 3}

RequestIds == 1..MaxRequests

\* a request before its first chunk call: the memory is reset
NewContext(max_len, served) ==
    [state |-> "AWAITING_FIRST_CHUNK", memory |-> 0, before |-> 0, max_len |-> max_len,
     first_flag |-> None, calls |-> 0, fatal |-> FALSE, served |-> served]

\* the batch the inference strategy hands to the step function for a chunk of
\* n tokens: the flag is set on the first call of a request only
StrategyBatch(c, n) ==
    [tokens |-> n,
     set_inference_key_value_memory |-> <<c.state = "AWAITING_FIRST_CHUNK">>,
     inference_max_sequence_len |-> <<c.max_len>>]

\* fwd_output_only_func: the entries of extra_arg read from the batch
ExtraArg(batch) ==
    [set_inference_key_value_memory |-> batch.set_inference_key_value_memory[1],
     inference_max_sequence_len |-> batch.inference_max_sequence_len[1]]

\* variant: the memory is never found full
MemoryOverflow_Never(held, n, max_len) == FALSE

\* n more positions do not fit a memory that holds held of max_len positions
MemoryOverflow(held, n, max_len) == held + n > max_len

\* the decoder's forward pass at inference: the memory is allocated empty when
\* the flag is set, the chunk's positions are appended, and a chunk that does
\* not fit is fatal for the request
DecoderForward(c, n, arg) ==
    LET held == IF arg.set_inference_key_value_memory THEN 0 ELSE c.memory
        flag == IF c.calls = 0
                THEN (IF arg.set_inference_key_value_memory THEN "True" ELSE "False")
                ELSE c.first_flag
    IN IF MemoryOverflow(held, n, arg.inference_max_sequence_len)
       THEN [c EXCEPT !.state = "ABORTED", !.fatal = TRUE, !.before = c.memory,
                      !.memory = held, !.first_flag = flag, !.calls = @ + 1]
       ELSE [c EXCEPT !.state = "STREAMING", !.before = c.memory,
                      !.memory = held + n, !.first_flag = flag, !.calls = @ + 1]

\* fwd_output_only_func on the next chunk of request i
FwdOutputOnlyFunc(i) ==
    /\ ctx[i].state \in {"AWAITING_FIRST_CHUNK", "STREAMING"}
    /\ \E n \in 1..MaxChunkLen :
          LET batch == StrategyBatch(ctx[i], n)
          IN ctx' = [ctx EXCEPT ![i] = DecoderForward(@, batch.tokens, ExtraArg(batch))]
    /\ UNCHANGED nonInferenceVars

\* generation of request i ends: end of sequence, or the token count is reached
GenerationDone(i) ==
    /\ ctx[i].state = "STREAMING"
    /\ ctx' = [ctx EXCEPT ![i].state = "DONE"]
    /\ UNCHANGED nonInferenceVars

\* the next generation request starts where request i ended or was aborted
StartRequest(i) ==
    /\ ctx[i].state \in {"DONE", "ABORTED"}
    /\ ctx[i].served < MaxServed
    /\ \E m \in MaxSeqLens : ctx' = [ctx EXCEPT ![i] = NewContext(m, ctx[i].served + 1)]
    /\ UNCHANGED nonInferenceVars

InferenceInit ==
    ctx \in [RequestIds -> {NewContext(m, 1) : m \in MaxSeqLens}]

\* the inference variables where another part of the program is followed
InferenceIdle ==
    ctx = [i \in RequestIds |-> [NewContext(2, 0) EXCEPT !.state = "off"]]

\* ------------------------------- one DreamBooth batch, from collation to the loss thunk
\* examples of a batch, dataset indices they are drawn from, and the values
\* the engine may pass to the result thunk
MaxExamples == 2
MaxIndex == 2
ThunkArgs == LossValues \cup {0}

\* the example the dataset returns for index k
Example(k) ==
    [instance_images |-> <<"instance_images", k>>, instance_prompt |-> <<"instance_prompt", k>>,
     reg_images |-> <<"reg_images", k>>, reg_prompt |-> <<"reg_prompt", k>>]

\* the batches a sampler can ask for: up to MaxExamples distinct indices
ExampleLists ==
    UNION {{s \in [1..n -> 0..MaxIndex] : \A i, j \in 1..n : i # j => s[i] # s[j]} :
              n \in 1..MaxExamples}

\* the text encoder's embedding of a prompt
TextEncoder(prompts) == [i \in 1..Len(prompts) |-> <<"embedding">> \o prompts[i]]

\* variant: each example's regularization image follows its instance image
CollateImages_Interleaved(examples) ==
    [i \in 1..(2 * Len(examples)) |->
        IF i % 2 = 1 THEN examples[(i + 1) \div 2].instance_images
        ELSE examples[i \div 2].reg_images]

\* _collate_fn with prior preservation: all instance images, then all
\* regularization images
CollateImages(examples) ==
    [i \in 1..Len(examples) |-> examples[i].instance_images]
        \o [i \in 1..Len(examples) |-> examples[i].reg_images]

\* _collate_fn: the prompts and the stacked images of a list of examples
_collate_fn(examples, with_prior_preservation) ==
    IF with_prior_preservation
    THEN [prompts |-> [i \in 1..Len(examples) |->
                          <<examples[i].instance_prompt, examples[i].reg_prompt>>],
          images |-> CollateImages(examples)]
    ELSE [prompts |-> [i \in 1..Len(examples) |-> <<examples[i].instance_prompt>>],
          images |-> [i \in 1..Len(examples) |-> examples[i].instance_images]]

\* process_global_batch: the conditioning of a batch of prompts
BatchCond(prompts, with_prior_preservation) ==
    LET cond == TextEncoder([i \in 1..Len(prompts) |-> prompts[i][1]])
    IN IF with_prior_preservation
       THEN cond \o TextEncoder([i \in 1..Len(prompts) |-> prompts[i][2]])
       ELSE cond

\* variant: the thunk hands back what it is called with
Dummy_Identity(loss, output_tensor) == <<output_tensor, [loss |-> output_tensor]>>

\* the result thunk of fwd_output_and_loss_func
Dummy(loss, output_tensor) == <<loss, [loss |-> loss]>>

NoBatch(examples, with_prior_preservation) ==
    [pc |-> "dataset", with_prior_preservation |-> with_prior_preservation,
     examples |-> [i \in 1..Len(examples) |-> Example(examples[i])],
     prompts |-> <<>>, images |-> <<>>, cond |-> <<>>,
     images_device |-> "cpu", cond_device |-> None,
     engine_invoked |-> FALSE, loss |-> 0, argument |-> 0, result |-> <<>>]

\* the data loader collates the examples of a batch
CollateFn ==
    /\ mb.pc = "dataset"
    /\ LET b == _collate_fn(mb.examples, mb.with_prior_preservation)
       IN mb' = [mb EXCEPT !.pc = "collated", !.prompts = b.prompts, !.images = b.images]
    /\ UNCHANGED nonBatchVars

\* transfer_batch_to_device: the batch is returned as it is
TransferBatchToDevice ==
    /\ mb.pc = "collated"
    /\ mb' = [mb EXCEPT !.pc = "transferred"]
    /\ UNCHANGED nonBatchVars

\* training_step, first part: process_global_batch moves the images to the
\* device and builds the conditioning there
ProcessGlobalBatch ==
    /\ mb.pc = "transferred"
    /\ mb' = [mb EXCEPT !.pc = "processed",
                        !.images_device = "cuda",
                        !.cond = BatchCond(mb.prompts, mb.with_prior_preservation),
                        !.cond_device = "cuda"]
    /\ UNCHANGED nonBatchVars

\* the engine invokes fwd_output_and_loss_func on the batch: every tensor is
\* moved to the device and the model computes the loss
FwdOutputAndLossFunc ==
    /\ mb.pc = "processed"
    /\ \E loss \in LossValues :
          mb' = [mb EXCEPT !.pc = "stepped", !.engine_invoked = TRUE,
                           !.images_device = "cuda", !.cond_device = "cuda",
                           !.loss = loss]
    /\ UNCHANGED nonBatchVars

\* the engine calls the result thunk
CallDummy ==
    /\ mb.pc = "stepped"
    /\ \E output_tensor \in ThunkArgs :
          mb' = [mb EXCEPT !.pc = "reported", !.argument = output_tensor,
                           !.result = Dummy(mb.loss, output_tensor)]
    /\ UNCHANGED nonBatchVars

BatchInit ==
    mb \in {NoBatch(e, p) : e \in ExampleLists, p \in BOOLEAN}

\* the batch where another part of the program is followed
BatchIdle ==
    mb = [NoBatch(<<0>>, FALSE) EXCEPT !.pc = "off"]

\* ------------------------------- seeding of the per-rank generators at setup
\* largest cfg.seed and largest data-parallel rank followed
MaxBaseSeed == 20
MaxDataParallelRank == 2

DataParallelRanks == 0..MaxDataParallelRank

\* a generator as DreamBooth.__init__ creates it
NewGenerator == [seeded |-> FALSE, seed |-> 0]

\* variant: every rank seeds with cfg.seed itself
RankSeed_Shared(seed, data_parallel_rank) == seed

\* the seed setup hands to manual_seed
RankSeed(seed, data_parallel_rank) == seed + 100 * data_parallel_rank

\* setup on data-parallel rank r, first statement: the rank's generator is seeded
DBSeedGenerator(r) ==
    /\ ~rngs[r].seeded
    /\ rngs' = [rngs EXCEPT ![r] = [seeded |-> TRUE, seed |-> RankSeed(base_seed, r)]]
    /\ UNCHANGED base_seed
    /\ UNCHANGED nonSeedVars

SeedInit ==
    /\ base_seed \in 0..MaxBaseSeed
    /\ rngs = [r \in DataParallelRanks |-> NewGenerator]

\* the generators where another part of the program is followed
SeedIdle ==
    /\ base_seed = 0
    /\ rngs = [r \in DataParallelRanks |-> NewGenerator]

\* ------------------------------- DreamBooth gradients between training_step and the optimizer
\* training steps followed, and the gradients a forward/backward pass may produce
MaxSteps == 3
GradValues == {1, 2, 3}

\* the hooks the trainer calls between training_step and the optimizer step
ClosureHooks == {"optimizer_zero_grad", "backward"}

\* self._optimizer.zero_grad()
ZeroGrad(grad) == 0

\* forward_backward_no_pipelining with forward_only=False: the backward pass
\* adds the batch's gradient to what the parameters hold
ForwardBackward(grad, g) == grad + g

\* variant: the hook zeroes the gradients, as the LightningModule default does
OptimizerZeroGradHook_Zeroes(grad) == 0

\* MegatronDreamBooth.optimizer_zero_grad: pass
OptimizerZeroGradHook(grad) == grad

\* variant: the hook runs the backward pass again
BackwardHook_Runs(grad, g) == grad + g

\* MegatronDreamBooth.backward: pass
BackwardHook(grad, g) == grad

NoGradients ==
    [pc |-> "idle", grad |-> 0, produced |-> 0, events |-> <<>>, hooks |-> {},
     applied |-> 0, params |-> 0, steps |-> 0]

\* training_step, as far as the gradients go: zero_grad, then the
\* forward/backward pass of the whole global batch
DBGradientStep ==
    /\ gradm.pc = "idle"
    /\ gradm.steps < MaxSteps
    /\ \E g \in GradValues :
          gradm' = [gradm EXCEPT !.pc = "returned",
                                 !.grad = ForwardBackward(ZeroGrad(gradm.grad), g),
                                 !.produced = g,
                                 !.events = <<"zero_grad", "forward_backward_no_pipelining">>,
                                 !.hooks = {}]
    /\ UNCHANGED nonGradVars

\* the trainer calls the optimizer_zero_grad hook
CallOptimizerZeroGrad ==
    /\ gradm.pc = "returned"
    /\ "optimizer_zero_grad" \notin gradm.hooks
    /\ gradm' = [gradm EXCEPT !.grad = OptimizerZeroGradHook(gradm.grad),
                              !.hooks = @ \cup {"optimizer_zero_grad"}]
    /\ UNCHANGED nonGradVars

\* the trainer calls the backward hook on the loss training_step returned
CallBackward ==
    /\ gradm.pc = "returned"
    /\ "backward" \notin gradm.hooks
    /\ gradm' = [gradm EXCEPT !.grad = BackwardHook(gradm.grad, gradm.produced),
                              !.hooks = @ \cup {"backward"}]
    /\ UNCHANGED nonGradVars

\* the optimizer steps on the gradients the parameters hold; they stay in
\* place until the next training_step zeroes them
GradOptimizerStep ==
    /\ gradm.pc = "returned"
    /\ gradm.hooks = ClosureHooks
    /\ gradm' = [gradm EXCEPT !.pc = "idle", !.applied = gradm.grad,
                              !.params = @ + gradm.grad, !.steps = @ + 1]
    /\ UNCHANGED nonGradVars

GradInit ==
    gradm = NoGradients

\* the gradients where another part of the program is followed
GradIdle ==
    gradm = [NoGradients EXCEPT !.pc = "off"]

\* ------------------------------- predict_step and the stored inference configuration
\* predict_step calls followed, and the batches they are given
MaxPredictCalls == 3
PredictBatches == {"batch0", "batch1"}

\* _inference_config before set_inference_config: None, written as a dict no
\* configuration can be equal to
NoInferenceConfig == [none |-> None]

\* a dict without entries
EmptyDict == [k \in {} |-> None]

\* d[key] = value
DictSet(d, key, value) == [k \in DOMAIN d \cup {key} |-> IF k = key THEN value ELSE d[k]]

\* del d[key]
DictDel(d, key) == [k \in DOMAIN d \ {key} |-> d[k]]

\* the dicts set_inference_config is handed: with compute_logprob set either
\* way, or without that entry
InferenceConfigs ==
    LET base == [tokens_to_generate : {"1", "30"}, all_probs : {"False"},
                 add_BOS : {"True", "False"}, greedy : {"True", "False"}]
    IN base \cup {DictSet(b, "compute_logprob", v) : b \in base, v \in {"True", "False"}}

\* variant: no copy is made, the overrides are written to the stored dict
ConfigAfterCall_Alias(stored, local) == local

\* inference_config = inference_config.copy(): the entries written and deleted
\* afterwards are those of the copy, the stored dict keeps its own
ConfigAfterCall(stored, local) == stored

\* the compute_logprob branch: the entries overwritten before generate is called
LogprobOverrides(d, batch) ==
    DictSet(DictSet(DictSet(DictSet(DictSet(d, "inputs", batch),
        "tokens_to_generate", "1"), "all_probs", "True"), "add_BOS", "False"),
        "greedy", "True")

\* the generation branch: compute_logprob is removed and the inputs are set
GenerateOverrides(d, batch) == DictSet(DictDel(d, "compute_logprob"), "inputs", batch)

NoPredict ==
    [set |-> FALSE, orig |-> EmptyDict, calls |-> 0, branch |-> "new", batch |-> None,
     local |-> EmptyDict, generated |-> FALSE, returned |-> None]

\* set_inference_config stores the dict it is handed
SetInferenceConfig ==
    /\ inference_config = NoInferenceConfig
    /\ \E c \in InferenceConfigs :
          /\ inference_config' = c
          /\ pred' = [pred EXCEPT !.set = TRUE, !.orig = c]
    /\ UNCHANGED nonPredictVars

\* predict_step on one batch
PredictStep ==
    /\ pred.calls < MaxPredictCalls
    /\ \E batch \in PredictBatches :
        IF inference_config = NoInferenceConfig
        THEN /\ pred' = [pred EXCEPT !.calls = @ + 1, !.branch = "none", !.batch = batch,
                                     !.local = EmptyDict, !.generated = FALSE,
                                     !.returned = None]
             /\ UNCHANGED inference_config
        ELSE LET copy == inference_config
             IN IF "compute_logprob" \notin DOMAIN copy
                THEN /\ pred' = [pred EXCEPT !.calls = @ + 1, !.branch = "KeyError",
                                             !.batch = batch, !.local = copy,
                                             !.generated = FALSE, !.returned = "KeyError"]
                     /\ inference_config' = ConfigAfterCall(inference_config, copy)
                ELSE IF copy["compute_logprob"] = "True"
                THEN LET local == LogprobOverrides(copy, batch)
                     IN /\ pred' = [pred EXCEPT !.calls = @ + 1, !.branch = "compute_logprob",
                                                !.batch = batch, !.local = local,
                                                !.generated = TRUE,
                                                !.returned = "compute_prob_response"]
                        /\ inference_config' = ConfigAfterCall(inference_config, local)
                ELSE LET local == GenerateOverrides(copy, batch)
                     IN /\ pred' = [pred EXCEPT !.calls = @ + 1, !.branch = "generate",
                                                !.batch = batch, !.local = local,
                                                !.generated = TRUE, !.returned = "response"]
                        /\ inference_config' = ConfigAfterCall(inference_config, local)
    /\ UNCHANGED nonPredictVars

PredictInit ==
    /\ inference_config = NoInferenceConfig
    /\ pred = NoPredict

\* the inference configuration where another part of the program is followed
PredictIdle ==
    /\ inference_config = NoInferenceConfig
    /\ pred = [NoPredict EXCEPT !.branch = "off"]

\* ------------------------------- the FID image generator's workers
\* caption files read, nodes per guidance scale, tasks per node, samples per prompt
MaxCaptions == 4
MaxNodes == 2
MaxTasks == 2
MaxSamples == 2

\* extra_lines: caption lines beyond one per file
FidConfigs ==
    [num_images_to_eval : 1..MaxCaptions, extra_lines : {0, 1},
     nnodes_per_cfg : 1..MaxNodes, ntasks_per_node : 1..MaxTasks,
     num_samples : 1..MaxSamples]

\* len(captions) after the caption files are read
CaptionCount(c) == c.num_images_to_eval + c.extra_lines

\* the workers that write to one save directory
Workers(c) == (0..(c.nnodes_per_cfg - 1)) \X (0..(c.ntasks_per_node - 1))

PartitionSizePerNode(c) == c.num_images_to_eval \div c.nnodes_per_cfg

\* len(captions[start_idx:end_idx]) on a node
NodeCaptionCount(c, node_id_per_cfg) ==
    LET start_idx == node_id_per_cfg * PartitionSizePerNode(c)
        end_idx == IF node_id_per_cfg # c.nnodes_per_cfg - 1
                   THEN (node_id_per_cfg + 1) * PartitionSizePerNode(c)
                   ELSE CaptionCount(c)
    IN end_idx - start_idx

PartitionSizePerTask(c, node_id_per_cfg) ==
    NodeCaptionCount(c, node_id_per_cfg) \div c.ntasks_per_node

\* len(input) of a worker
InputCount(c, node_id_per_cfg, local_task_id) ==
    LET start_idx == local_task_id * PartitionSizePerTask(c, node_id_per_cfg)
        end_idx == IF local_task_id # c.ntasks_per_node - 1
                   THEN (local_task_id + 1) * PartitionSizePerTask(c, node_id_per_cfg)
                   ELSE NodeCaptionCount(c, node_id_per_cfg)
    IN end_idx - start_idx

\* the caption a worker's i-th prompt is, counted over all captions
CaptionOf(c, node_id_per_cfg, local_task_id, i) ==
    node_id_per_cfg * PartitionSizePerNode(c)
        + local_task_id * PartitionSizePerTask(c, node_id_per_cfg) + i

\* image_num of every sample of a worker's i-th prompt
ImageNum(c, node_id_per_cfg, local_task_id, i) ==
    i + PartitionSizePerNode(c) * node_id_per_cfg
      + PartitionSizePerTask(c, node_id_per_cfg) * local_task_id

NoImages(c) ==
    [progress |-> [w \in Workers(c) |-> 0], files |-> {}, saved |-> 0, overwrites |-> 0]

\* one pass of a worker's loop: the samples of its next prompt are generated
\* and each is saved under image_num, replacing a file of that name
FidGenerate(node_id_per_cfg, local_task_id) ==
    LET w == <<node_id_per_cfg, local_task_id>>
        i == fid.progress[w]
        image_num == ImageNum(fidcfg, node_id_per_cfg, local_task_id, i)
        there == {f \in fid.files : f.image_num = image_num}
    IN /\ i < InputCount(fidcfg, node_id_per_cfg, local_task_id)
       /\ fid' = [fid EXCEPT
                    !.progress[w] = i + 1,
                    !.files = (@ \ there) \cup
                        {[image_num |-> image_num,
                          caption |-> CaptionOf(fidcfg, node_id_per_cfg, local_task_id, i),
                          sample |-> fidcfg.num_samples]},
                    !.saved = @ + fidcfg.num_samples,
                    !.overwrites = @ + (fidcfg.num_samples - 1)
                                     + (IF there # {} THEN 1 ELSE 0)]
       /\ UNCHANGED fidcfg
       /\ UNCHANGED nonFidVars

FidInit ==
    /\ fidcfg \in FidConfigs
    /\ fid = NoImages(fidcfg)

\* the FID generator where another part of the program is followed
FidIdle ==
    /\ fidcfg = [num_images_to_eval |-> 1, extra_lines |-> 0, nnodes_per_cfg |-> 1,
                 ntasks_per_node |-> 1, num_samples |-> 1]
    /\ fid = [progress |-> [w \in Workers(fidcfg) |-> 0], files |-> {}, saved |-> 0,
              overwrites |-> -1]

TrainInit ==
    /\ cfg \in Configs
    /\ pc = "idle"
    /\ batch_idx = 0
    /\ engine_out = [r \in Ranks |-> <<>>]
    /\ calls = [r \in Ranks |-> <<>>]
    /\ local_loss = [r \in Ranks |-> Zero]
    /\ loss_mean = [r \in Ranks |-> Zero]
    /\ logged = [r \in Ranks |-> <<>>]
    /\ backward_done = FALSE
    /\ undrained = FALSE
    /\ window = [steps |-> 0, main_grads |-> 0]
    /\ reduced_loss_buffer = <<>>
    /\ val = NoVal

\* the training variables where only the scheduler correction is followed
TrainIdle ==
    /\ cfg = [model |-> "retrieval", with_distributed_adam |-> FALSE,
              megatron_amp_O2 |-> FALSE, sequence_parallel |-> FALSE,
              tensor_model_parallel_size |-> 1, pipeline_model_parallel_size |-> 1,
              precision |-> "16", accumulate_grad_batches |-> 1]
    /\ pc = "off"
    /\ batch_idx = 0
    /\ engine_out = [r \in Ranks |-> <<>>]
    /\ calls = [r \in Ranks |-> <<>>]
    /\ local_loss = [r \in Ranks |-> Zero]
    /\ loss_mean = [r \in Ranks |-> Zero]
    /\ logged = [r \in Ranks |-> <<>>]
    /\ backward_done = FALSE
    /\ undrained = FALSE
    /\ window = [steps |-> 0, main_grads |-> 0]
    /\ reduced_loss_buffer = <<>>
    /\ val = NoVal

vars == <<trainVars, schedVars, setupVars, lossVars, samplerVars, randomVars, inferenceVars, batchVars, seedVars, gradVars, predictVars, fidVars>>

Init == TrainInit /\ SchedIdle /\ SetupIdle /\ LossIdle /\ SamplerIdle /\ RandomIdle /\ InferenceIdle /\ BatchIdle /\ SeedIdle /\ GradIdle /\ PredictIdle /\ FidIdle

Next ==
    \/ DBTrainingStep
    \/ DBValidationStep
    \/ RTTrainingStep
    \/ LightningBackward
    \/ OptimizerStep
    \/ AccumulateBatch

Spec == Init /\ [][Next]_vars

\* the scheduler correction of on_train_batch_end, batch after batch
SchedSpecInit == SchedInit /\ TrainIdle /\ SetupIdle /\ LossIdle /\ SamplerIdle /\ RandomIdle /\ InferenceIdle /\ BatchIdle /\ SeedIdle /\ GradIdle /\ PredictIdle /\ FidIdle

SchedNext ==
    \/ TrainerOptimizerStep
    \/ TrainerAccumulateBatch
    \/ OnTrainBatchEnd

SpecSched == SchedSpecInit /\ [][SchedNext]_vars

\* construction and setup of one model
SetupSpecInit == SetupInit /\ TrainIdle /\ SchedIdle /\ LossIdle /\ SamplerIdle /\ RandomIdle /\ InferenceIdle /\ BatchIdle /\ SeedIdle /\ GradIdle /\ PredictIdle /\ FidIdle

SetupNext ==
    \/ DBConstruct
    \/ RTConstruct
    \/ DBSetup
    \/ RTSetup

SpecSetup == SetupSpecInit /\ [][SetupNext]_vars

\* one loss computation
LossSpecInit == LossInit /\ TrainIdle /\ SchedIdle /\ SetupIdle /\ SamplerIdle /\ RandomIdle /\ InferenceIdle /\ BatchIdle /\ SeedIdle /\ GradIdle /\ PredictIdle /\ FidIdle

LossNext ==
    \/ DreamBoothForward
    \/ RTTrainingLoss
    \/ RTValidationLoss

SpecLoss == LossSpecInit /\ [][LossNext]_vars

\* one pretraining data loader and one epoch of its sampler
SamplerSpecInit == SamplerInit /\ TrainIdle /\ SchedIdle /\ SetupIdle /\ LossIdle /\ RandomIdle /\ InferenceIdle /\ BatchIdle /\ SeedIdle /\ GradIdle /\ PredictIdle /\ FidIdle

SamplerNext ==
    \/ BuildPretrainingDataLoader
    \/ SamplerYield
    \/ SamplerStop

SpecSampler == SamplerSpecInit /\ [][SamplerNext]_vars

\* one randomized sampler, run through and restarted from a checkpoint
RandomSpecInit == RandomInit /\ TrainIdle /\ SchedIdle /\ SetupIdle /\ LossIdle /\ SamplerIdle /\ InferenceIdle /\ BatchIdle /\ SeedIdle /\ GradIdle /\ PredictIdle /\ FidIdle

RandomNext ==
    \/ DBBuildRandomSampler
    \/ RandomYield
    \/ RandomStop
    \/ DBRestartRandomSampler
    \/ RerunYield
    \/ RerunStop

SpecRandom == RandomSpecInit /\ [][RandomNext]_vars

\* generation requests against the retrieval decoder, chunk by chunk
InferenceSpecInit == InferenceInit /\ TrainIdle /\ SchedIdle /\ SetupIdle /\ LossIdle /\ SamplerIdle /\ RandomIdle /\ BatchIdle /\ SeedIdle /\ GradIdle /\ PredictIdle /\ FidIdle

InferenceNext ==
    \/ \E i \in RequestIds : FwdOutputOnlyFunc(i)
    \/ \E i \in RequestIds : GenerationDone(i)
    \/ \E i \in RequestIds : StartRequest(i)

SpecInference == InferenceSpecInit /\ [][InferenceNext]_vars

\* one DreamBooth batch through collation, training_step and the loss thunk
BatchSpecInit == BatchInit /\ TrainIdle /\ SchedIdle /\ SetupIdle /\ LossIdle /\ SamplerIdle /\ RandomIdle /\ InferenceIdle /\ SeedIdle /\ GradIdle /\ PredictIdle /\ FidIdle

BatchNext ==
    \/ CollateFn
    \/ TransferBatchToDevice
    \/ ProcessGlobalBatch
    \/ FwdOutputAndLossFunc
    \/ CallDummy

SpecBatch == BatchSpecInit /\ [][BatchNext]_vars

\* setup seeding the generator of each data-parallel rank
SeedSpecInit == SeedInit /\ TrainIdle /\ SchedIdle /\ SetupIdle /\ LossIdle /\ SamplerIdle /\ RandomIdle /\ InferenceIdle /\ BatchIdle /\ GradIdle /\ PredictIdle /\ FidIdle

SeedNext ==
    \/ \E r \in DataParallelRanks : DBSeedGenerator(r)

SpecSeed == SeedSpecInit /\ [][SeedNext]_vars

\* the gradients of DreamBooth through training_step, the trainer's hooks and the optimizer step
GradSpecInit == GradInit /\ TrainIdle /\ SchedIdle /\ SetupIdle /\ LossIdle /\ SamplerIdle /\ RandomIdle /\ InferenceIdle /\ BatchIdle /\ SeedIdle /\ PredictIdle /\ FidIdle

GradNext ==
    \/ DBGradientStep
    \/ CallOptimizerZeroGrad
    \/ CallBackward
    \/ GradOptimizerStep

SpecGrad == GradSpecInit /\ [][GradNext]_vars

\* set_inference_config and a sequence of predict_step calls
PredictSpecInit == PredictInit /\ TrainIdle /\ SchedIdle /\ SetupIdle /\ LossIdle /\ SamplerIdle /\ RandomIdle /\ InferenceIdle /\ BatchIdle /\ SeedIdle /\ GradIdle /\ FidIdle

PredictNext ==
    \/ SetInferenceConfig
    \/ PredictStep

SpecPredict == PredictSpecInit /\ [][PredictNext]_vars

\* the workers of the FID image generator writing to one save directory
FidSpecInit == FidInit /\ TrainIdle /\ SchedIdle /\ SetupIdle /\ LossIdle /\ SamplerIdle /\ RandomIdle /\ InferenceIdle /\ BatchIdle /\ SeedIdle /\ GradIdle /\ PredictIdle

FidNext ==
    \/ \E w \in Workers(fidcfg) : FidGenerate(w[1], w[2])

SpecFid == FidSpecInit /\ [][FidNext]_vars

\* ------------------------------------------------------------ properties
DataParallelReductions(s) == Count(s, "allreduce_main_grads") + Count(s, "allreduce_gradients")

PlainMode(c) == ~c.with_distributed_adam /\ ~c.megatron_amp_O2

WrapperMode(c) == ~c.with_distributed_adam /\ c.megatron_amp_O2

IsCollective(call) ==
    call \in {"allreduce_sequence_parallel_gradients", "allreduce_main_grads",
              "allreduce_gradients", "broadcast",
              "average_losses_across_data_parallel_group"}

\* the value logged under key, None when the key was not logged
RECURSIVE LoggedValue(_, _)
LoggedValue(log, key) ==
    IF log = <<>> THEN None
    ELSE IF Head(log)[1] = key THEN Head(log)[2]
    ELSE LoggedValue(Tail(log), key)

LoggedKeys(log) == {log[i][1] : i \in DOMAIN log}

\* C1: with the distributed optimizer, a training step of either model issues
\* neither allreduce_main_grads nor allreduce_gradients on any rank, whatever
\* megatron_amp_O2 is.
C1_NoExplicitReduction ==
    (pc \in {"returned", "backward_done"} /\ cfg.with_distributed_adam)
        => \A r \in Ranks : DataParallelReductions(calls[r]) = 0

C1_Witness ==
    /\ pc = "returned"
    /\ cfg.with_distributed_adam /\ cfg.megatron_amp_O2
    /\ cfg.model = "dreambooth"
    /\ Count(calls[get_last_rank], "forward_backward_no_pipelining") = 1

C3_PlainAlwaysReduces ==
    (pc = "returned" /\ PlainMode(cfg))
        => \A r \in Ranks : Count(calls[r], "allreduce_gradients") >= 1

\* C3 amended: in the plain mode every DreamBooth training step issues
\* allreduce_gradients exactly once, after the forward/backward pass and before
\* it returns; the retrieval model's training_step issues no gradient all-reduce
\* of its own.
C3_PlainReduction ==
    (pc = "returned" /\ PlainMode(cfg)) =>
        \A r \in Ranks :
            /\ cfg.model = "dreambooth" =>
                  /\ Count(calls[r], "allreduce_gradients") = 1
                  /\ Count(calls[r], "allreduce_main_grads") = 0
                  /\ IndexOf(calls[r], "forward_backward_no_pipelining")
                         < IndexOf(calls[r], "allreduce_gradients")
            /\ cfg.model = "retrieval" => DataParallelReductions(calls[r]) = 0

C3_Witness ==
    /\ pc = "returned"
    /\ PlainMode(cfg)
    /\ cfg.model = "dreambooth"
    /\ Count(calls[0], "allreduce_gradients") = 1

\* C4 as stated: with sequence_parallel set, every training step issues the
\* sequence-parallel all-reduce exactly once, in every mode.
C4_SequenceParallelAlways ==
    (pc = "returned" /\ cfg.sequence_parallel)
        => \A r \in Ranks : Count(calls[r], "allreduce_sequence_parallel_gradients") = 1

\* C4 amended: DreamBooth issues the sequence-parallel all-reduce exactly once
\* per training step, before the mode's own reduction and in every mode, when
\* sequence_parallel is set and tensor_model_parallel_size > 1, and not at all
\* otherwise; the retrieval model's training_step never issues it.
C4_SequenceParallelReduction ==
    pc = "returned" =>
        \A r \in Ranks :
            LET n == Count(calls[r], "allreduce_sequence_parallel_gradients")
                at == IndexOf(calls[r], "allreduce_sequence_parallel_gradients")
            IN /\ (cfg.model = "dreambooth" /\ cfg.sequence_parallel
                       /\ cfg.tensor_model_parallel_size > 1)
                     => /\ n = 1
                        /\ \A i \in DOMAIN calls[r] :
                              calls[r][i] \in {"allreduce_main_grads", "allreduce_gradients",
                                               "broadcast"} => at < i
               /\ (cfg.model = "dreambooth" /\ ~(cfg.sequence_parallel
                       /\ cfg.tensor_model_parallel_size > 1)) => n = 0
               /\ cfg.model = "retrieval" => n = 0

C4_Witness ==
    /\ pc = "returned"
    /\ cfg.model = "dreambooth"
    /\ cfg.sequence_parallel /\ cfg.tensor_model_parallel_size > 1
    /\ cfg.with_distributed_adam
    /\ Count(calls[0], "allreduce_sequence_parallel_gradients") = 1

\* C5: when training_step returns, the backward pass of the batch has run and no
\* asynchronous gradient reduction is still in flight.
C5_BackwardDrainedAtReturn ==
    pc = "returned" => (backward_done /\ ~undrained)

\* C6 as stated: every training step of either model broadcasts the loss exactly
\* once, after the gradient reduction, and logs the broadcast value as
\* reduced_train_loss on every rank.
C6_BroadcastEveryStep ==
    pc = "returned" =>
        \A r \in Ranks :
            /\ Count(calls[r], "broadcast") = 1
            /\ calls[r][Len(calls[r])] = "broadcast"
            /\ "reduced_train_loss" \in LoggedKeys(logged[r])
            /\ LoggedValue(logged[r], "reduced_train_loss") = local_loss[get_last_rank]

\* C6 amended: every DreamBooth training step broadcasts the loss exactly once
\* from the last rank, after the gradient reduction, and logs the broadcast value
\* (the last rank's loss) as reduced_train_loss on every rank; the retrieval
\* model issues no broadcast: it averages the loss over the data-parallel group
\* once per step, and what it logs is the same on every rank.
C6_LossBroadcast ==
    pc = "returned" =>
        \A r \in Ranks :
            /\ cfg.model = "dreambooth" =>
                  /\ Count(calls[r], "broadcast") = 1
                  /\ calls[r][Len(calls[r])] = "broadcast"
                  /\ "reduced_train_loss" \in LoggedKeys(logged[r])
                  /\ LoggedValue(logged[r], "reduced_train_loss") = local_loss[get_last_rank]
                  /\ loss_mean[r] = local_loss[get_last_rank]
            /\ cfg.model = "retrieval" =>
                  /\ Count(calls[r], "broadcast") = 0
                  /\ Count(calls[r], "average_losses_across_data_parallel_group") = 1
                  /\ logged[r] = logged[get_last_rank]

C6_Witness ==
    /\ pc = "returned"
    /\ cfg.model = "dreambooth"
    /\ local_loss[0] # local_loss[get_last_rank]
    /\ LoggedValue(logged[0], "reduced_train_loss") = local_loss[get_last_rank]

\* C7: in one training step every rank issues the same sequence of collective
\* calls, whether the engine returned it an empty or a non-empty loss list.
C7_SameCollectives ==
    pc = "returned" =>
        \A r, q \in Ranks :
            SelectSeq(calls[r], IsCollective) = SelectSeq(calls[q], IsCollective)

C7_Witness ==
    /\ pc = "returned"
    /\ cfg.model = "dreambooth"
    /\ engine_out[0] = <<>>
    /\ engine_out[get_last_rank] # <<>>
    /\ Count(calls[0], "broadcast") = 1
    /\ Count(calls[0], "allreduce_gradients") = 1

\* the loss the claim prescribes for a list of loss records: 0 for the empty
\* list, otherwise sum / count
IsMeanOf(x, losses) ==
    IF losses = <<>> THEN x = <<0, 1>>
    ELSE x[1] * Len(losses) = x[2] * SumSeq([i \in 1..Len(losses) |-> losses[i].loss])

\* C8: training_step and validation_step raise no error on an empty list of loss
\* records and use the loss 0.0; on a non-empty list the loss is the mean of the
\* "loss" entries.
C8_LossOfRecords ==
    /\ (pc = "returned" /\ cfg.model = "dreambooth")
           => \A r \in Ranks : IsMeanOf(local_loss[r], engine_out[r])
    /\ val.ran => (val.error = None /\ IsMeanOf(val.loss, val.losses))

\* C9: once on_train_batch_end has handled a skipped optimizer step, every
\* scheduler's step counter and learning rate are what they were before that
\* step.
C9_SkipIsNoOp ==
    (sched_pc = "batch" /\ hist.outcome = "corrected")
        => \A i \in DOMAIN schedulers :
              /\ schedulers[i].last_epoch = hist.before_step[i].last_epoch
              /\ schedulers[i].lr = hist.before_step[i].lr

C9_Witness ==
    /\ sched_pc = "batch"
    /\ hist.outcome = "corrected"
    /\ trainer.num_schedulers = 2
    /\ hist.before_step[1].last_epoch >= 1
    /\ schedulers[2].last_epoch = hist.before_step[2].last_epoch

\* C10: under automatic optimization with a registered scheduler, the correction
\* runs once per skipped step the GradScaler reported: never more often than
\* skips were reported, as often once the hook has run under a
\* NativeMixedPrecisionPlugin; handling a skip leaves the flag None, and a hook
\* call that sees no skip leaves the schedulers as they were.
C10_OncePerSkip ==
    (trainer.automatic_optimization /\ trainer.num_schedulers >= 1) =>
        /\ hist.corrections <= hist.skips
        /\ (sched_pc = "batch" /\ trainer.precision_plugin = "NativeMixedPrecisionPlugin")
               => hist.corrections = hist.skips
        /\ (sched_pc = "batch" /\ hist.outcome = "corrected")
               => optimizer_update_skipped = None
        /\ (sched_pc = "batch" /\ hist.outcome = "no_skip")
               => schedulers = hist.before_hook

C10_Witness ==
    /\ trainer.automatic_optimization /\ trainer.num_schedulers >= 1
    /\ sched_pc = "batch"
    /\ hist.outcome = "no_skip"
    /\ ~hist.stepped
    /\ hist.corrections = 1 /\ hist.skips = 1
    /\ optimizer_update_skipped = None

\* how often key was logged in log
KeyCount(log, key) == Cardinality({i \in DOMAIN log : log[i][1] = key})

\* C11: reduced_train_loss, lr, global_step, consumed_samples and (under 16-bit
\* precision with a loss scale) loss_scale are logged exactly once per optimizer
\* step and never per microbatch: a batch after which the trainer accumulates
\* without stepping the optimizer logs nothing, and the batch that ends in the
\* optimizer step logs each of the four keys once and loss_scale at most once.
C11_LoggedOncePerOptimizerStep ==
    [][/\ AccumulateBatch => \A r \in Ranks : logged[r] = <<>>
       /\ OptimizerStep =>
             \A r \in Ranks :
                /\ \A k \in {"reduced_train_loss", "lr", "global_step", "consumed_samples"} :
                      KeyCount(logged[r], k) = 1
                /\ KeyCount(logged[r], "loss_scale") <= 1]_vars

\* the offset the checkpoint prescribes: its consumed_samples, 0 without a path
CheckpointOffset(ckpt) == IF ckpt.path = None THEN 0 ELSE ckpt.consumed_samples

\* C12: the training data loader that setup builds skips exactly
\* init_consumed_samples samples, the consumed_samples value of the resolved
\* checkpoint (0 without one), in DreamBooth and in the retrieval model.
C12_SamplerResumesFromCheckpoint ==
    (mdl.stage = "ready" /\ mdl.train_dl.built) =>
        /\ mdl.init_consumed_samples = CheckpointOffset(env.ckpt)
        /\ mdl.train_dl.skips = mdl.init_consumed_samples

\* C13: a setup that succeeds and builds the training loader had a
\* global_batch_size divisible by micro_batch_size * data_parallel_size, and
\* DreamBooth's _num_micro_batches * micro_batch_size * data_parallel_size is
\* the global_batch_size.
C13_GlobalBatchDivisible ==
    (mdl.stage = "ready" /\ mdl.train_dl.built) =>
        /\ env.global_batch_size % (env.micro_batch_size * env.data_parallel_size) = 0
        /\ env.kind = "dreambooth" =>
              mdl.num_micro_batches * env.micro_batch_size * env.data_parallel_size
                  = env.global_batch_size

C15_PrecisionChecked ==
    mdl.stage # "new" =>
        LET p == PrecisionRead(env)
        IN /\ p \notin {"32", "16", "bf16"} =>
                 /\ mdl.stage = "raised"
                 /\ mdl.error = "ValueError"
                 /\ mdl.autocast_dtype = None
           /\ (p \in {"32", "16", "bf16"} /\ mdl.raised_by # "_validate_trainer") =>
                 /\ mdl.raised_by # "precision"
                 /\ mdl.autocast_dtype = (CASE p = "32" -> "float"
                                            [] p = "16" -> "half"
                                            [] p = "bf16" -> "bfloat16")

C15_Witness ==
    /\ env.kind = "retrieval"
    /\ ~env.run_retrieval
    /\ env.cfg_precision = "64"
    /\ mdl.stage = "raised"
    /\ mdl.raised_by = "precision"

\* C17: with prior preservation enabled and the regularization directory or
\* prompt missing, setup_training_data raises before any dataset, batch sampler
\* or data loader is created; with both present it passes them to the dataset;
\* with prior preservation disabled it raises nothing and passes neither.
C17_PriorPreservationChecked ==
    (env.kind = "dreambooth" /\ mdl.setups > 0) =>
        LET missing == \/ env.data.regularization_dir = None
                       \/ env.data.regularization_prompt = None
        IN /\ (env.with_prior_preservation /\ missing) =>
                 /\ mdl.stage = "raised"
                 /\ mdl.error = "ValueError"
                 /\ mdl.created = <<>>
                 /\ ~mdl.train_dl.built
           /\ (env.with_prior_preservation /\ ~missing) =>
                 /\ mdl.stage = "ready"
                 /\ mdl.train_dl.reg_data_root = env.data.regularization_dir
                 /\ mdl.train_dl.reg_prompt = env.data.regularization_prompt
           /\ ~env.with_prior_preservation =>
                 /\ mdl.stage = "ready"
                 /\ mdl.train_dl.built
                 /\ mdl.train_dl.reg_data_root = None
                 /\ mdl.train_dl.reg_prompt = None

C17_Witness ==
    /\ env.kind = "dreambooth"
    /\ env.with_prior_preservation
    /\ env.data.regularization_dir = "reg_dir"
    /\ env.data.regularization_prompt = None
    /\ mdl.setups = 1
    /\ mdl.stage = "raised"
    /\ mdl.created = <<>>

\* the sum of the squared differences of rows lo..hi
SquaredError(a, b, lo, hi) == SumSeq([i \in 1..(hi - lo + 1) |-> (a[lo + i - 1] - b[lo + i - 1]) * (a[lo + i - 1] - b[lo + i - 1])])

C18_PriorPreservationLoss ==
    fwd.pc = "returned" =>
        LET n == Len(fwd.model_output)
            h == n \div 2
        IN IF fwd.cfg.with_prior_preservation
           THEN fwd.loss[1] * h
                    = fwd.loss[2] * (SquaredError(fwd.model_output, fwd.target, 1, h)
                                     + fwd.cfg.prior_loss_weight
                                         * SquaredError(fwd.model_output, fwd.target, h + 1, n))
           ELSE fwd.loss[1] * n = fwd.loss[2] * SquaredError(fwd.model_output, fwd.target, 1, n)

C18_Witness ==
    /\ fwd.pc = "returned"
    /\ fwd.cfg.with_prior_preservation
    /\ fwd.cfg.prior_loss_weight = 2
    /\ Len(fwd.model_output) = 4
    /\ SquaredError(fwd.model_output, fwd.target, 1, 2) = 1
    /\ SquaredError(fwd.model_output, fwd.target, 3, 4) = 2
    /\ fwd.loss = <<5, 2>>

SamplerScenario ==
    /\ world.total_samples = 100 /\ world.consumed_samples = 0
    /\ world.micro_batch_size = 4 /\ world.data_parallel_size = 2
    /\ world.pipeline_model_parallel_size = 2

\* C20: with total_samples=100, micro_batch_size=4, global_batch_size=16,
\* data_parallel_size=2 and drop_last=True the sampler yields exactly 6 global
\* batches, each rank receiving 8 indices per global batch, the two ranks'
\* indices disjoint, 96 samples consumed and 4 dropped.
C20_SamplerScenario ==
    (SamplerScenario /\ smp.pc \in {"iterating", "done"}) =>
        /\ smp.global_batch_size = 16 /\ smp.drop_last
        /\ smp.batches <= 6
        /\ smp.yielded = 16 * smp.batches
        /\ smp.batches >= 1 =>
              /\ \A r \in 0..1 : Len(smp.last[r]) = 8
              /\ \A i, j \in 1..8 : smp.last[0][i] # smp.last[1][j]
        /\ smp.pc = "done" => (smp.batches = 6 /\ smp.yielded = 96 /\ smp.dropped = 4)

C20_Witness ==
    /\ SamplerScenario
    /\ smp.pc = "done"
    /\ smp.batches = 6
    /\ smp.dropped = 4
    /\ Len(smp.last[1]) = 8

\* C21: for every seed and every consumed_samples value an uninterrupted run
\* reaches, a randomized sampler restarted with that seed and that value yields
\* from there on exactly the batches the uninterrupted run yields after that
\* point, and ends where it ends.
C21_RestartReplaysRun ==
    rerun.pc \in {"iterating", "done"} =>
        /\ \A k \in 1..Len(rerun.hist) :
              rerun.at + k <= Len(run.hist) => rerun.hist[k] = run.hist[rerun.at + k]
        /\ \A k \in 1..(Len(run.hist) - rerun.at) :
              k <= Len(rerun.hist) => run.hist[rerun.at + k] = rerun.hist[k]
        /\ (rerun.pc = "done" /\ run.pc = "done") =>
              Len(run.hist) = rerun.at + Len(rerun.hist)

C21_Witness ==
    /\ rworld.seed = 1 /\ rworld.data_parallel_size = 2
    /\ run.pc = "done" /\ rerun.pc = "done"
    /\ rerun.at >= 1
    /\ Len(rerun.hist) >= 2
    /\ rerun.hist[1] = run.hist[rerun.at + 1]

\* what C22 says of every state of a request
MemoryWithinRequest(c) ==
    /\ c.state = "AWAITING_FIRST_CHUNK" => (c.memory = 0 /\ c.calls = 0)
    /\ c.calls >= 1 => c.first_flag = "True"
    /\ c.calls >= 2 => c.memory >= c.before
    /\ c.memory <= c.max_len
    /\ c.fatal <=> c.state = "ABORTED"

\* C22: within one generation request the key/value memory is empty at the
\* first chunk call, which carries set_inference_key_value_memory = true, is
\* only appended to by later calls and never holds more than
\* inference_max_sequence_len positions; an append that would exceed the limit
\* aborts that request as fatal and leaves the other requests as they were.
C22_MemoryBounded ==
    /\ [](\A i \in RequestIds : MemoryWithinRequest(ctx[i]))
    /\ [][\A i \in RequestIds :
            (ctx'[i].fatal /\ ~ctx[i].fatal /\ ctx[i].state # "off") =>
                /\ ctx[i].memory + MaxChunkLen > ctx[i].max_len
                /\ ctx'[i].memory <= ctx[i].max_len
                /\ \A j \in RequestIds \ {i} : ctx'[j] = ctx[j]]_vars

C22_Witness ==
    \E i, j \in RequestIds :
        /\ i # j
        /\ ctx[i].state = "ABORTED" /\ ctx[i].fatal /\ ctx[i].calls >= 2
        /\ ctx[i].memory = ctx[i].max_len - 1
        /\ ctx[j].state = "STREAMING" /\ ctx[j].memory = ctx[j].max_len

\* C23: the result thunk returned by the DreamBooth step function computes
\* nothing further: whatever it is called with, it returns the loss the forward
\* pass computed, unchanged, and a mapping whose "loss" entry is that loss, and
\* the call leaves the batch and the loss as they were.
C23_ThunkReturnsLoss ==
    /\ [](mb.pc = "reported" =>
             /\ mb.result[1] = mb.loss
             /\ DOMAIN mb.result[2] = {"loss"}
             /\ mb.result[2].loss = mb.loss)
    /\ [][(mb.pc = "stepped" /\ mb'.pc = "reported") =>
             mb' = [mb EXCEPT !.pc = "reported", !.argument = mb'.argument,
                              !.result = mb'.result]]_vars

C23_Witness ==
    /\ mb.pc = "reported"
    /\ mb.loss = 2
    /\ mb.argument = 1
    /\ mb.result = <<2, [loss |-> 2]>>

\* C24: a microbatch stays on host memory until the pipeline engine schedules
\* it: transfer_batch_to_device returns the batch unchanged, and no tensor of
\* the batch is on the device before the engine has invoked the step function
\* on it.
C24_HostUntilScheduled ==
    /\ [][(mb.pc = "collated" /\ mb'.pc = "transferred") =>
             mb' = [mb EXCEPT !.pc = "transferred"]]_vars
    /\ [](~mb.engine_invoked => mb.images_device = "cpu")

\* C25: at setup each data-parallel rank seeds its own generator with
\* base_seed + 100 * data_parallel_rank; for every base seed two distinct ranks
\* get distinct seeds, and a rank's setup leaves the other ranks' generators
\* as they were.
C25_SeedPerRank ==
    /\ [](/\ \A r \in DataParallelRanks :
                rngs[r].seeded => rngs[r].seed = base_seed + 100 * r
          /\ \A r, q \in DataParallelRanks :
                (r # q /\ rngs[r].seeded /\ rngs[q].seeded) => rngs[r].seed # rngs[q].seed)
    /\ [][\A r \in DataParallelRanks :
            rngs'[r] # rngs[r] => \A q \in DataParallelRanks \ {r} : rngs'[q] = rngs[q]]_vars

C25_Witness ==
    /\ base_seed = 7
    /\ \A r \in DataParallelRanks : rngs[r].seeded
    /\ rngs[0].seed = 7 /\ rngs[1].seed = 107 /\ rngs[2].seed = 207

\* C26: in each DreamBooth training step the gradients are zeroed exactly once
\* and before the forward/backward pass; the backward and optimizer_zero_grad
\* hooks do nothing, so from the end of training_step to the optimizer step the
\* parameters hold the gradients that step produced, neither recomputed nor
\* zeroed, and the optimizer steps on them.
C26_GradientsKept ==
    /\ gradm.pc = "returned" =>
          /\ Count(gradm.events, "zero_grad") = 1
          /\ IndexOf(gradm.events, "zero_grad")
                < IndexOf(gradm.events, "forward_backward_no_pipelining")
          /\ gradm.grad = gradm.produced
    /\ (gradm.pc = "idle" /\ gradm.steps >= 1) => gradm.applied = gradm.produced

C26_Witness ==
    /\ gradm.pc = "idle"
    /\ gradm.steps = 2
    /\ gradm.produced = 2 /\ gradm.applied = 2
    /\ gradm.params = 3
    /\ gradm.hooks = ClosureHooks

\* C27: in the retrieval model, over any sequence of training_step calls, with
\* batch_idx restarting at 0 at each epoch and epochs of any length, the
\* reduced-loss buffer never holds more than accumulate_grad_batches entries
\* and is empty right after each log of reduced_train_loss, so each logged
\* value is the average of exactly accumulate_grad_batches microbatch losses.
C27_BufferWithinWindow ==
    cfg.model = "retrieval" =>
        /\ Len(reduced_loss_buffer) <= cfg.accumulate_grad_batches
        /\ (pc = "returned" /\ KeyCount(logged[get_last_rank], "reduced_train_loss") >= 1) =>
              reduced_loss_buffer = <<>>

\* C28: with prior preservation and a batch of n examples the collated images
\* and the conditioning built by process_global_batch are aligned position by
\* position: position i holds example i's instance image with its instance-prompt
\* embedding, position n+i its regularization image with its
\* regularization-prompt embedding, so the first half the loss splits off is
\* the instance half and the second the regularization half.
C28_ImagesAlignedWithCond ==
    (mb.pc \in {"processed", "stepped", "reported"} /\ mb.with_prior_preservation) =>
        LET n == Len(mb.examples)
            instance == [i \in 1..n |-> mb.examples[i].instance_images]
            reg == [i \in 1..n |-> mb.examples[i].reg_images]
            instance_cond == TextEncoder([i \in 1..n |-> mb.examples[i].instance_prompt])
            reg_cond == TextEncoder([i \in 1..n |-> mb.examples[i].reg_prompt])
        IN /\ Len(mb.images) = 2 * n /\ Len(mb.cond) = 2 * n
           /\ \A i \in 1..n :
                 /\ mb.images[i] = instance[i] /\ mb.cond[i] = instance_cond[i]
                 /\ mb.images[n + i] = reg[i] /\ mb.cond[n + i] = reg_cond[i]
           /\ FirstChunk(mb.images) = instance /\ SecondChunk(mb.images) = reg
           /\ FirstChunk(mb.cond) = instance_cond /\ SecondChunk(mb.cond) = reg_cond

C28_Witness ==
    /\ mb.pc = "processed"
    /\ mb.with_prior_preservation
    /\ Len(mb.examples) = 2
    /\ mb.images = << <<"instance_images", 2>>, <<"instance_images", 0>>,
                      <<"reg_images", 2>>, <<"reg_images", 0>> >>
    /\ mb.cond[4] = <<"embedding", "reg_prompt", 0>>

\* C29: predict_step never changes the stored inference configuration: after
\* any sequence of calls, in the compute_logprob or the generation branch,
\* _inference_config has the keys and values it was set with; the overrides
\* (inputs, tokens_to_generate=1, all_probs, add_BOS, greedy, the removal of
\* compute_logprob) are those of the per-call dict handed to generate; with no
\* configuration set predict_step returns None without generating.
C29_ConfigUnchanged ==
    /\ pred.set => inference_config = pred.orig
    /\ (~pred.set /\ pred.branch # "off") => inference_config = NoInferenceConfig
    /\ pred.branch = "none" => (pred.returned = None /\ ~pred.generated)
    /\ pred.branch = "compute_logprob" =>
          /\ pred.generated
          /\ pred.local = [pred.orig EXCEPT !["tokens_to_generate"] = "1",
                                            !["all_probs"] = "True",
                                            !["add_BOS"] = "False",
                                            !["greedy"] = "True"] @@ [inputs |-> pred.batch]
    /\ pred.branch = "generate" =>
          /\ pred.generated
          /\ pred.local = DictDel(pred.orig, "compute_logprob") @@ [inputs |-> pred.batch]

C29_Witness ==
    /\ pred.calls = 3
    /\ pred.branch = "compute_logprob"
    /\ pred.batch = "batch1"
    /\ inference_config = [compute_logprob |-> "True", tokens_to_generate |-> "30",
                           all_probs |-> "False", add_BOS |-> "True", greedy |-> "False"]
    /\ pred.local.tokens_to_generate = "1"
    /\ pred.local.inputs = "batch1"

\* C30: across all workers that write to the same save directory no two
\* generated images receive the same image number, so no image file written
\* earlier is overwritten by a worker or by a later sample, for any caption
\* count and any number of samples per prompt.
C30_NoImageOverwritten ==
    fid.overwrites >= 0 =>
        /\ fid.overwrites = 0
        /\ Cardinality(fid.files) = fid.saved

====
